---- MODULE Spec2Model ----
(***************************************************************************)
(* Versioned key-value memory store (internal/gogit.go, internal/memory.go)*)
(* modelled as a state machine over the working tree, the staging index,   *)
(* the commit store and the branch references.                             *)
(*                                                                         *)
(* Strings are sequences of one-character strings; a file path is a        *)
(* sequence of segments, each segment a string.  The absolute path <<>>    *)
(* is the filesystem root "/", RootPath is the scope's working root.       *)
(***************************************************************************)
EXTENDS Integers, Sequences, FiniteSets, TLC

\* ---------------------------------------------------------------- bounds
MaxCommits == 2      \* Spec, SpecKeys: no Commit once the store holds this many
MaxHistCommits == 4  \* SpecHist: no Commit once the store holds this many
MaxTime == 1         \* the clock (seconds) runs from 0 to MaxTime
MaxLimit == 3        \* Log is asked for limits from -1 to MaxLimit

\* ---------------------------------------------------------- characters
Lower == {"a","b","c","d","e","f","g","h","i","j","k","l","m",
          "n","o","p","q","r","s","t","u","v","w","x","y","z"}
Upper == {"A","B","C","D","E","F","G","H","I","J","K","L","M",
          "N","O","P","Q","R","S","T","U","V","W","X","Y","Z"}
Digit == {"0","1","2","3","4","5","6","7","8","9"}
AlnumChars == Lower \cup Upper \cup Digit
\* whitespace as unicode.IsSpace sees it (the characters the model uses)
SpaceChars == {" ", "\n", "\t", "\r"}

\* byte order of the characters the model uses (filepath.Walk and
\* sort.Strings order names bytewise)
Ascii == <<"\t","\n","\r"," ","+","-",".","/",
           "0","1","2","3","4","5","6","7","8","9",
           "A","B","C","D","E","F","G","H","I","J","K","L","M",
           "N","O","P","Q","R","S","T","U","V","W","X","Y","Z","_",
           "a","b","c","d","e","f","g","h","i","j","k","l","m",
           "n","o","p","q","r","s","t","u","v","w","x","y","z">>
Ord(c) == CHOOSE i \in 1..Len(Ascii) : Ascii[i] = c

\* bytewise s < t on strings
RECURSIVE StrLess(_, _)
StrLess(s, t) ==
  IF t = <<>> THEN FALSE
  ELSE IF s = <<>> THEN TRUE
  ELSE IF Head(s) = Head(t) THEN StrLess(Tail(s), Tail(t))
  ELSE Ord(Head(s)) < Ord(Head(t))

\* strings.HasPrefix
HasPrefix(s, p) == Len(p) <= Len(s) /\ SubSeq(s, 1, Len(p)) = p

\* strings.Contains
Contains(s, sub) ==
  \E i \in 0..(Len(s) - Len(sub)) : SubSeq(s, i + 1, i + Len(sub)) = sub

\* strings.Split(s, sep) for a one-character separator
RECURSIVE SplitFrom(_, _, _)
SplitFrom(s, sep, cur) ==
  IF s = <<>> THEN <<cur>>
  ELSE IF Head(s) = sep THEN <<cur>> \o SplitFrom(Tail(s), sep, <<>>)
  ELSE SplitFrom(Tail(s), sep, Append(cur, Head(s)))
Split(s, sep) == SplitFrom(s, sep, <<>>)

\* strings.Join(segs, sep)
RECURSIVE JoinStr(_, _)
JoinStr(segs, sep) ==
  IF segs = <<>> THEN <<>>
  ELSE IF Len(segs) = 1 THEN Head(segs)
  ELSE Head(segs) \o <<sep>> \o JoinStr(Tail(segs), sep)

\* strings.TrimSpace
RECURSIVE TrimLeft(_)
TrimLeft(s) ==
  IF s # <<>> /\ Head(s) \in SpaceChars THEN TrimLeft(Tail(s)) ELSE s
RECURSIVE TrimRight(_)
TrimRight(s) ==
  IF s # <<>> /\ s[Len(s)] \in SpaceChars
  THEN TrimRight(SubSeq(s, 1, Len(s) - 1)) ELSE s
TrimSpace(s) == TrimRight(TrimLeft(s))

\* ---------------------------------------------------------------- keys
\* keyPattern = ^[a-zA-Z0-9][a-zA-Z0-9._/-]*$
KeyTailChars == AlnumChars \cup {".", "_", "/", "-"}
keyPattern(s) ==
  /\ s # <<>>
  /\ s[1] \in AlnumChars
  /\ \A i \in 2..Len(s) : s[i] \in KeyTailChars

\* NewKey returns the string unchanged or ErrInvalidKey
NewKey(s) ==
  IF s = <<>> THEN [err |-> "ErrInvalidKey", key |-> <<>>]
  ELSE IF ~keyPattern(s) THEN [err |-> "ErrInvalidKey", key |-> <<>>]
  ELSE [err |-> "nil", key |-> s]

\* ---------------------------------------------------------------- paths
RootPath == << <<"r">> >>                      \* the scope's working root, /r
MemDir == Append(RootPath, <<".","m","e","m">>) \* the metadata directory
InitName == <<".","m","e","m","-","i","n","i","t">>
InitFile == Append(RootPath, InitName)          \* the initialization sentinel
\* "mem repository initialized\n"
InitContent ==
  <<"m","e","m"," ","r","e","p","o","s","i","t","o","r","y"," ","i","n","i","t","i","a","l","i","z","e","d","\n">>

Parent(p) == SubSeq(p, 1, Len(p) - 1)
Base(p) == p[Len(p)]
IsUnder(p, d) == Len(d) < Len(p) /\ SubSeq(p, 1, Len(d)) = d

\* filepath.Clean on the segments of an absolute path
RECURSIVE CleanSegs(_, _)
CleanSegs(segs, acc) ==
  IF segs = <<>> THEN acc
  ELSE LET h == Head(segs) IN
    IF h = <<>> \/ h = <<".">> THEN CleanSegs(Tail(segs), acc)
    ELSE IF h = <<".", ".">>
      THEN CleanSegs(Tail(segs), IF acc = <<>> THEN acc ELSE Parent(acc))
    ELSE CleanSegs(Tail(segs), Append(acc, h))

\* filepath.Join(root, s)
FilepathJoin(root, s) == CleanSegs(root \o Split(s, "/"), <<>>)

\* keyToPath = filepath.Join(r.rootPath, key.String())
keyToPath(key) == FilepathJoin(RootPath, key)

\* filepath.Rel(base, target) for absolute clean paths, as segments
RECURSIVE CommonLen(_, _)
CommonLen(a, b) ==
  IF a = <<>> \/ b = <<>> \/ Head(a) # Head(b) THEN 0
  ELSE 1 + CommonLen(Tail(a), Tail(b))
FilepathRel(base, target) ==
  LET n == CommonLen(base, target)
      ups == [i \in 1..(Len(base) - n) |-> <<".", ".">>]
      rest == SubSeq(target, n + 1, Len(target))
  IN IF ups \o rest = <<>> THEN << <<".">> >> ELSE ups \o rest

\* a relative path that leaves the worktree filesystem (billy chroot)
CrossesBoundary(rel) == rel # <<>> /\ Head(rel) = <<".", ".">>
\* absolute path of a worktree-relative path
AbsOf(rel) == CleanSegs(RootPath \o rel, <<>>)

\* ----------------------------------------------------------- filesystem
\* A filesystem is a function from the absolute paths that exist to nodes.
DirNode == [dir |-> TRUE, content |-> <<>>]
FileNode(c) == [dir |-> FALSE, content |-> c]

IsDir(f, p) == p = <<>> \/ (p \in DOMAIN f /\ f[p].dir)
IsFile(f, p) == p \in DOMAIN f /\ ~f[p].dir
Children(f, d) == {p \in DOMAIN f : Len(p) = Len(d) + 1 /\ Parent(p) = d}

\* os.Stat: "nil", "ENOENT" (os.IsNotExist) or "ENOTDIR" (a file on the way)
Stat(f, p) ==
  IF \E i \in 1..(Len(p) - 1) : IsFile(f, SubSeq(p, 1, i)) THEN "ENOTDIR"
  ELSE IF p = <<>> \/ p \in DOMAIN f THEN "nil"
  ELSE "ENOENT"

\* os.MkdirAll
RECURSIVE MkdirAll(_, _)
MkdirAll(f, d) ==
  IF Stat(f, d) = "nil"
  THEN IF IsDir(f, d) THEN [err |-> "nil", fs |-> f]
       ELSE [err |-> "ENOTDIR", fs |-> f]
  ELSE LET up == MkdirAll(f, Parent(d)) IN
       IF up.err # "nil" THEN up
       ELSE [err |-> "nil", fs |-> (d :> DirNode) @@ up.fs]

\* os.WriteFile (O_WRONLY|O_CREATE|O_TRUNC)
WriteFile(f, p, c) ==
  IF IsDir(f, p) THEN [err |-> "EISDIR", fs |-> f]
  ELSE IF Stat(f, Parent(p)) # "nil" THEN [err |-> Stat(f, Parent(p)), fs |-> f]
  ELSE IF ~IsDir(f, Parent(p)) THEN [err |-> "ENOTDIR", fs |-> f]
  ELSE [err |-> "nil", fs |-> (p :> FileNode(c)) @@ f]

\* os.ReadFile
ReadFile(f, p) ==
  IF Stat(f, p) # "nil" THEN [err |-> Stat(f, p), content |-> <<>>]
  ELSE IF IsDir(f, p) THEN [err |-> "EISDIR", content |-> <<>>]
  ELSE [err |-> "nil", content |-> f[p].content]

\* os.Remove of one path
RemovePath(f, p) == [q \in DOMAIN f \ {p} |-> f[q]]

\* the metadata directory always holds the object and ref database
IsEmptyDir(f, d) == IsDir(f, d) /\ Children(f, d) = {} /\ d # MemDir

\* files inside the working root, outside the metadata directory, by
\* worktree-relative path
WorktreeFiles(f) ==
  {FilepathRel(RootPath, p) : p \in {q \in DOMAIN f :
      IsUnder(q, RootPath) /\ ~f[q].dir /\ ~IsUnder(q, MemDir)}}
\* files outside the working root
OutsideFiles(f) ==
  [p \in {q \in DOMAIN f : ~f[q].dir /\ ~IsUnder(q, RootPath)} |-> f[p].content]

\* sorted by last segment, bytewise (os.ReadDir / filepath.Walk order)
RECURSIVE SortByBase(_)
SortByBase(S) ==
  IF S = {} THEN <<>>
  ELSE LET m == CHOOSE x \in S : \A y \in S \ {x} : StrLess(Base(x), Base(y))
       IN <<m>> \o SortByBase(S \ {m})

\* --------------------------------------------------- the embedded engine
\* The staging index and a commit's tree are functions from
\* worktree-relative paths to blob contents.
WithoutEntry(idx, rel) == [q \in DOMAIN idx \ {rel} |-> idx[q]]

\* worktree.Add(relPath) as Save calls it: the path was just written
WorktreeAdd(f, idx, rel) ==
  IF CrossesBoundary(rel) THEN [err |-> "ErrCrossedBoundary", index |-> idx]
  ELSE IF IsFile(f, AbsOf(rel))
    THEN [err |-> "nil", index |-> (rel :> f[AbsOf(rel)].content) @@ idx]
  ELSE IF rel \in DOMAIN idx
    THEN [err |-> "nil", index |-> WithoutEntry(idx, rel)]
  ELSE [err |-> "ErrEntryNotFound", index |-> idx]

\* doRemoveFile: drop the index entry, then the file
DoRemoveFile(st, rel) ==
  IF rel \notin DOMAIN st.index
  THEN [err |-> "ErrEntryNotFound", fs |-> st.fs, index |-> st.index]
  ELSE [err |-> "nil",
        fs |-> IF CrossesBoundary(rel) \/ ~IsFile(st.fs, AbsOf(rel))
               THEN st.fs ELSE RemovePath(st.fs, AbsOf(rel)),
        index |-> WithoutEntry(st.index, rel)]

\* doRemoveDirectory: every tracked file below the directory leaves the
\* index and the disk, untracked files stay, emptied directories go
RECURSIVE DoRemoveDirectory(_, _)
RECURSIVE DoRemoveEntries(_, _)
DoRemoveEntries(st, entries) ==
  IF entries = <<>> THEN st
  ELSE LET e == Head(entries)
           one == IF IsDir(st.fs, e) THEN DoRemoveDirectory(st, e)
                  ELSE LET r == DoRemoveFile(st, FilepathRel(RootPath, e))
                       IN [fs |-> r.fs, index |-> r.index]
       IN DoRemoveEntries(one, Tail(entries))
DoRemoveDirectory(st, d) ==
  LET done == DoRemoveEntries(st, SortByBase(Children(st.fs, d)))
  IN IF IsEmptyDir(done.fs, d)
     THEN [fs |-> RemovePath(done.fs, d), index |-> done.index]
     ELSE done

\* worktree.Remove(relPath)
WorktreeRemove(f, idx, rel) ==
  IF ~CrossesBoundary(rel) /\ Stat(f, AbsOf(rel)) = "nil" /\ IsDir(f, AbsOf(rel))
  THEN LET r == DoRemoveDirectory([fs |-> f, index |-> idx], AbsOf(rel))
       IN [err |-> "nil", fs |-> r.fs, index |-> r.index]
  ELSE DoRemoveFile([fs |-> f, index |-> idx], rel)

\* ------------------------------------------------------------------ state
\* no Install or RunHook call is in progress
Idle == [at |-> "idle"]
\* a use case built without collaborators
NoUseCase == [provider |-> "nil", storeFn |-> "nil", reindexFn |-> "nil",
              scriptFails |-> FALSE]
\* no RunHook call has been made: nothing tried, nothing stored, no reindex
\* task
NoRun == [events |-> <<>>, stored |-> <<>>, reindex |-> "none", uc |-> NoUseCase]

VARIABLES
  fs,        \* the disk: absolute path -> node
  index,     \* the staging index: relative path -> content
  commits,   \* the object store: commit id -> [parent, tree, message, when]
  branches,  \* refs/heads: branch name -> commit id
  head,      \* the branch HEAD points at
  now,       \* the wall clock, in seconds
  op,        \* the last operation called and what it returned
  saved,     \* the key of the last Save when only Commits were called since
  cwd,       \* the process's working directory
  pc,        \* the Install or RunHook call in progress and the step it is at
  run        \* the last RunHook call: what its strategies and callbacks did

vars == <<fs, index, commits, branches, head, now, op, saved, cwd, pc, run>>

\* "init: initialize mem repository"
InitMessage ==
  <<"i","n","i","t",":"," ","i","n","i","t","i","a","l","i","z","e"," ","m","e","m"," ","r","e","p","o","s","i","t","o","r","y">>
\* git.Init points HEAD at refs/heads/master
InitBranch == "master"

\* op: the call's name, its key, its content or message, its branch or
\* revision, and the error it returned
NoKey == <<>>
Ret(name, key, arg, ref, err) ==
  [name |-> name, key |-> key, arg |-> arg, ref |-> ref, err |-> err]

\* the store InitRepository leaves: the sentinel written, staged and
\* committed as the first commit
InitRepository ==
  /\ fs = (RootPath :> DirNode) @@ (MemDir :> DirNode)
          @@ (InitFile :> FileNode(InitContent))
  /\ index = (<<InitName>> :> InitContent)
  /\ commits = << [parent |-> 0, tree |-> (<<InitName>> :> InitContent),
                   message |-> InitMessage, when |-> 0] >>
  /\ branches = (InitBranch :> 1)
  /\ head = InitBranch
  /\ now = 0
  /\ op = Ret("InitRepository", NoKey, <<>>, "", "nil")
  /\ saved = NoKey
  /\ cwd = RootPath
  /\ pc = Idle
  /\ run = NoRun

HeadCommit == branches[head]
HeadTree == commits[HeadCommit].tree

\* ---------------------------------------------------------------- queries
Get(key) ==
  LET path == keyToPath(key) IN
  IF Stat(fs, path) = "ENOENT" THEN [err |-> "ErrNotFound", content |-> <<>>]
  ELSE IF Stat(fs, path) # "nil" THEN [err |-> "stat file", content |-> <<>>]
  ELSE IF ReadFile(fs, path).err # "nil" THEN [err |-> "read file", content |-> <<>>]
  ELSE [err |-> "nil", content |-> ReadFile(fs, path).content]

Exists(key) ==
  LET path == keyToPath(key) IN
  IF Stat(fs, path) = "ENOENT" THEN [val |-> FALSE, err |-> "nil"]
  ELSE IF Stat(fs, path) # "nil" THEN [val |-> FALSE, err |-> Stat(fs, path)]
  ELSE [val |-> TRUE, err |-> "nil"]

\* filepath.Walk with List's callback: the memories found at and below p
RECURSIVE WalkList(_, _)
RECURSIVE WalkEntries(_, _)
WalkEntries(entries, prefix) ==
  IF entries = <<>> THEN <<>>
  ELSE WalkList(Head(entries), prefix) \o WalkEntries(Tail(entries), prefix)
WalkList(p, prefix) ==
  IF IsDir(fs, p)
  THEN IF Base(p) = <<".","m","e","m">> \/ Base(p) = InitName THEN <<>>
       ELSE WalkEntries(SortByBase(Children(fs, p)), prefix)
  ELSE IF Base(p) = InitName THEN <<>>
  ELSE LET relPath == JoinStr(FilepathRel(RootPath, p), "/") IN
       IF prefix # <<>> /\ ~HasPrefix(relPath, prefix) THEN <<>>
       ELSE IF NewKey(relPath).err # "nil" THEN <<>>
       ELSE << [key |-> NewKey(relPath).key, content |-> fs[p].content] >>

List(prefix) == WalkList(RootPath, prefix)

\* toCommit: the commit as Log and Commit report it
toCommit(c) ==
  [Hash |-> c,
   Message |-> TrimSpace(commits[c].message),
   Timestamp |-> commits[c].when,
   Parents |-> IF commits[c].parent = 0 THEN <<>> ELSE <<commits[c].parent>>]

\* a Log callback that tests the count after appending
RECURSIVE LogFromOffByOne(_, _, _)
LogFromOffByOne(c, limit, count) ==
  IF c = 0 THEN <<>>
  ELSE IF limit > 0 /\ count > limit THEN <<>>
  ELSE << [Hash |-> c,
           Message |-> TrimSpace(commits[c].message),
           Timestamp |-> commits[c].when,
           Parents |-> IF commits[c].parent = 0 THEN <<>> ELSE <<commits[c].parent>>] >>
       \o LogFromOffByOne(commits[c].parent, limit, count + 1)

\* the commit iterator's ForEach with Log's callback (count, limit)
RECURSIVE LogFrom(_, _, _)
LogFrom(c, limit, count) ==
  IF c = 0 THEN <<>>
  ELSE IF limit > 0 /\ count >= limit THEN <<>>
  ELSE <<toCommit(c)>> \o LogFrom(commits[c].parent, limit, count + 1)

Log(limit) == LogFrom(HeadCommit, limit, 0)

\* worktree.Status, staging column: the paths whose index entry differs
\* from HEAD's tree
StagingStatus(path) ==
  IF path \in DOMAIN index /\ path \notin DOMAIN HeadTree THEN "Added"
  ELSE IF path \notin DOMAIN index /\ path \in DOMAIN HeadTree THEN "Deleted"
  ELSE IF path \in DOMAIN index /\ index[path] # HeadTree[path] THEN "Modified"
  ELSE "Unmodified"
StatusPaths == DOMAIN index \cup DOMAIN HeadTree \cup WorktreeFiles(fs)
WorktreeStatus(path) ==
  IF path \notin DOMAIN index
  THEN IF path \in WorktreeFiles(fs) THEN "Untracked" ELSE "Unmodified"
  ELSE IF path \notin WorktreeFiles(fs) THEN "Deleted"
  ELSE IF fs[AbsOf(path)].content # index[path] THEN "Modified"
  ELSE "Unmodified"
IsClean ==
  \A path \in StatusPaths :
    StagingStatus(path) = "Unmodified" /\ WorktreeStatus(path) = "Unmodified"

\* fmt.Fprintf of one line per strings.Split(content, "\n") element
RECURSIVE PrefixedLines(_, _)
PrefixedLines(lines, sign) ==
  IF lines = <<>> THEN <<>>
  ELSE <<sign>> \o Head(lines) \o <<"\n">> \o PrefixedLines(Tail(lines), sign)
DevNull == <<"/","d","e","v","/","n","u","l","l">>
Minus3 == <<"-","-","-"," ">>
Plus3 == <<"+","+","+"," ">>

\* one path's block of the pseudo-diff
DiffBlock(path) ==
  LET name == JoinStr(path, "/")
      new == ReadFile(fs, AbsOf(path))
  IN CASE StagingStatus(path) = "Added" ->
            IF new.err # "nil" THEN <<>>
            ELSE Minus3 \o DevNull \o <<"\n">> \o Plus3 \o <<"b","/">> \o name \o <<"\n">>
                 \o PrefixedLines(Split(new.content, "\n"), "+")
       [] StagingStatus(path) = "Modified" ->
            IF new.err # "nil" THEN <<>>
            ELSE Minus3 \o <<"a","/">> \o name \o <<"\n">>
                 \o Plus3 \o <<"b","/">> \o name \o <<"\n">>
                 \o PrefixedLines(Split(HeadTree[path], "\n"), "-")
                 \o PrefixedLines(Split(new.content, "\n"), "+")
       [] StagingStatus(path) = "Deleted" ->
            Minus3 \o <<"a","/">> \o name \o <<"\n">> \o Plus3 \o DevNull \o <<"\n">>
            \o PrefixedLines(Split(HeadTree[path], "\n"), "-")
       [] OTHER -> <<>>

\* every order in which a Go map range may visit a set of paths
RECURSIVE Orders(_)
Orders(S) ==
  IF S = {} THEN {<<>>}
  ELSE UNION {{<<x>> \o rest : rest \in Orders(S \ {x})} : x \in S}
RECURSIVE ConcatBlocks(_)
ConcatBlocks(paths) ==
  IF paths = <<>> THEN <<>>
  ELSE DiffBlock(Head(paths)) \o ConcatBlocks(Tail(paths))

\* a pseudo-diff that renders only the added paths
diffAddedOnly ==
  IF IsClean THEN {<<>>}
  ELSE {ConcatBlocks(o) : o \in Orders({p \in StatusPaths : StagingStatus(p) = "Added"})}

\* diffWorktreeVsHead: the strings Diff("") can return in this state (the
\* status map is ranged over in an unspecified order)
diffWorktreeVsHead ==
  IF IsClean THEN {<<>>}
  ELSE {ConcatBlocks(o) : o \in Orders({p \in StatusPaths : StagingStatus(p) # "Unmodified"})}

\* ------------------------------------------------------------- operations
\* Save: MkdirAll, WriteFile, Rel, worktree.Add; each error returns at once
\* and keeps what the steps before it did
SaveResult(f, idx, key, content) ==
  LET path == keyToPath(key)
      mk == MkdirAll(f, Parent(path))
      wr == WriteFile(mk.fs, path, content)
      add == WorktreeAdd(wr.fs, idx, FilepathRel(RootPath, path))
  IN IF mk.err # "nil" THEN [err |-> "create directory", fs |-> f, index |-> idx]
     ELSE IF wr.err # "nil" THEN [err |-> "write file", fs |-> mk.fs, index |-> idx]
     ELSE IF add.err # "nil" THEN [err |-> "stage file", fs |-> wr.fs, index |-> idx]
     ELSE [err |-> "nil", fs |-> wr.fs, index |-> add.index]

\* a Save that also commits what it staged
SaveAutoCommit(key, content) ==
  LET r == SaveResult(fs, index, key, content)
      c == [parent |-> branches[head], tree |-> r.index,
            message |-> <<"s","e","t">>, when |-> now]
      made == r.index # commits[branches[head]].tree
  IN /\ fs' = r.fs
     /\ index' = r.index
     /\ op' = Ret("Save", key, content, "", r.err)
     /\ saved' = key
     /\ commits' = IF made THEN Append(commits, c) ELSE commits
     /\ branches' = IF made THEN [branches EXCEPT ![head] = Len(commits) + 1] ELSE branches
     /\ UNCHANGED <<cwd, pc, run, head, now>>

Save(key, content) ==
  LET r == SaveResult(fs, index, key, content) IN
  /\ fs' = r.fs
  /\ index' = r.index
  /\ op' = Ret("Save", key, content, "", r.err)
  /\ saved' = key
  /\ UNCHANGED <<cwd, pc, run, commits, branches, head, now>>

\* Delete: Stat (only ENOENT is NotFound), Rel, worktree.Remove
DeleteResult(f, idx, key) ==
  LET path == keyToPath(key)
      rm == WorktreeRemove(f, idx, FilepathRel(RootPath, path))
  IN IF Stat(f, path) = "ENOENT" THEN [err |-> "ErrNotFound", fs |-> f, index |-> idx]
     ELSE IF rm.err # "nil" THEN [err |-> "remove file", fs |-> f, index |-> idx]
     ELSE [err |-> "nil", fs |-> rm.fs, index |-> rm.index]

Delete(key) ==
  LET r == DeleteResult(fs, index, key) IN
  /\ fs' = r.fs
  /\ index' = r.index
  /\ op' = Ret("Delete", key, <<>>, "", r.err)
  /\ saved' = NoKey
  /\ UNCHANGED <<cwd, pc, run, commits, branches, head, now>>

\* the id of a commit object: the store is content-addressed, so an object
\* equal to a stored one is that one
CommitId(c) ==
  IF \E i \in 1..Len(commits) : commits[i] = c
  THEN CHOOSE i \in 1..Len(commits) : commits[i] = c
  ELSE Len(commits) + 1

\* a Commit that lets an empty commit through
CommitAllowEmpty(message) ==
  LET c == [parent |-> branches[head], tree |-> index, message |-> message, when |-> now]
      id == IF \E i \in 1..Len(commits) : commits[i] = c
            THEN CHOOSE i \in 1..Len(commits) : commits[i] = c
            ELSE Len(commits) + 1
  IN /\ commits' = IF id > Len(commits) THEN Append(commits, c) ELSE commits
     /\ branches' = [branches EXCEPT ![head] = id]
     /\ op' = Ret("Commit", NoKey, message, "", "nil")
     /\ UNCHANGED <<cwd, pc, run, fs, index, head, now, saved>>

\* a Commit that leaves the deletions out of the snapshot
CommitWithoutDeletions(message) ==
  LET kept == [p \in DOMAIN index \cup DOMAIN HeadTree |->
                 IF p \in DOMAIN index THEN index[p] ELSE HeadTree[p]]
      c == [parent |-> HeadCommit, tree |-> kept, message |-> message, when |-> now]
  IN IF index = HeadTree
     THEN /\ op' = Ret("Commit", NoKey, message, "", "commit")
          /\ UNCHANGED <<cwd, pc, run, fs, index, commits, branches, head, now, saved>>
     ELSE /\ commits' = IF CommitId(c) > Len(commits) THEN Append(commits, c) ELSE commits
          /\ branches' = [branches EXCEPT ![head] = CommitId(c)]
          /\ op' = Ret("Commit", NoKey, message, "", "nil")
          /\ UNCHANGED <<cwd, pc, run, fs, index, head, now, saved>>

\* Commit: worktree.Commit builds the tree from the index, refuses a tree
\* equal to HEAD's, stores the commit and moves the current branch
Commit(message) ==
  LET c == [parent |-> HeadCommit, tree |-> index, message |-> message, when |-> now]
  IN IF index = HeadTree
     THEN /\ op' = Ret("Commit", NoKey, message, "", "commit")
          /\ UNCHANGED <<cwd, pc, run, fs, index, commits, branches, head, now, saved>>
     ELSE /\ commits' = IF CommitId(c) > Len(commits) THEN Append(commits, c) ELSE commits
          /\ branches' = [branches EXCEPT ![head] = CommitId(c)]
          /\ op' = Ret("Commit", NoKey, message, "", "nil")
          /\ UNCHANGED <<cwd, pc, run, fs, index, head, now, saved>>

\* the clock advances between calls
Tick ==
  /\ now < MaxTime
  /\ now' = now + 1
  /\ UNCHANGED <<cwd, pc, run, fs, index, commits, branches, head, op, saved>>

\* bytewise order of relative paths written with "/"
RECURSIVE SortPaths(_)
SortPaths(S) ==
  IF S = {} THEN <<>>
  ELSE LET m == CHOOSE x \in S :
                  \A y \in S \ {x} : StrLess(JoinStr(x, "/"), JoinStr(y, "/"))
       IN <<m>> \o SortPaths(S \ {m})

\* rmFileAndDirsIfEmpty: remove the file, then every directory above it
\* that became empty
RECURSIVE RemoveDirsIfEmpty(_, _)
RemoveDirsIfEmpty(f, d) ==
  IF d # RootPath /\ IsUnder(d, RootPath) /\ IsEmptyDir(f, d)
  THEN RemoveDirsIfEmpty(RemovePath(f, d), Parent(d))
  ELSE f
RmFileAndDirsIfEmpty(f, p) ==
  IF IsFile(f, p) THEN RemoveDirsIfEmpty(RemovePath(f, p), Parent(p)) ELSE f

RECURSIVE RemoveAll(_, _)
RemoveAll(f, rels) ==
  IF rels = <<>> THEN f
  ELSE RemoveAll(RmFileAndDirsIfEmpty(f, AbsOf(Head(rels))), Tail(rels))

\* checkoutFile for each path the tree holds; the first path that cannot
\* be written ends the reset with an error
RECURSIVE WriteAll(_, _, _)
WriteAll(f, tree, rels) ==
  IF rels = <<>> THEN [err |-> "nil", fs |-> f]
  ELSE LET p == AbsOf(Head(rels))
           mk == MkdirAll(f, Parent(p))
           wr == WriteFile(mk.fs, p, tree[Head(rels)])
       IN IF mk.err # "nil" THEN [err |-> mk.err, fs |-> f]
          ELSE IF wr.err # "nil" THEN [err |-> wr.err, fs |-> mk.fs]
          ELSE WriteAll(wr.fs, tree, Tail(rels))

\* resetWorktree: bring the working tree from the old index to the tree
ResetWorktree(f, idx, tree) ==
  LET gone == SortPaths({p \in DOMAIN idx : p \notin DOMAIN tree})
      put == SortPaths({p \in DOMAIN tree :
                 ~IsFile(f, AbsOf(p)) \/ f[AbsOf(p)].content # tree[p]})
  IN WriteAll(RemoveAll(f, gone), tree, put)

BranchExists(name) == name \in DOMAIN branches

\* Current: the branch HEAD points at and its commit
Current == [Name |-> head, Head |-> branches[head]]

\* the bytes of a branch name
NameChars(n) ==
  CASE n = "master" -> <<"m","a","s","t","e","r">>
    [] n = "dev" -> <<"d","e","v">>
    [] n = "fix" -> <<"f","i","x">>
    [] OTHER -> <<>>

\* ListBranches: every refs/heads entry, sorted by name
RECURSIVE SortBranches(_)
SortBranches(S) ==
  IF S = {} THEN <<>>
  ELSE LET m == CHOOSE x \in S :
                  \A y \in S \ {x} : StrLess(NameChars(x), NameChars(y))
       IN <<[Name |-> m, Head |-> branches[m]]>> \o SortBranches(S \ {m})
ListBranches == SortBranches(DOMAIN branches)

\* a Create that also checks the new branch out
CreateAndSwitch(name) ==
  /\ branches' = (name :> branches[head]) @@ branches
  /\ head' = name
  /\ op' = Ret("Create", NoKey, <<>>, name, "nil")
  /\ saved' = NoKey
  /\ UNCHANGED <<cwd, pc, run, fs, index, commits, now>>

\* Create: SetReference writes refs/heads/<name> at HEAD's commit
Create(name) ==
  /\ branches' = (name :> HeadCommit) @@ branches
  /\ op' = Ret("Create", NoKey, <<>>, name, "nil")
  /\ saved' = NoKey
  /\ UNCHANGED <<cwd, pc, run, fs, index, commits, head, now>>

\* containsUnstagedChanges: a tracked path whose file differs from the
\* index or is gone (untracked files do not count)
Unstaged == \E p \in DOMAIN index : WorktreeStatus(p) # "Unmodified"

\* a Switch that resets the index and the working tree but leaves HEAD
SwitchKeepHead(name) ==
  IF name \notin DOMAIN branches
  THEN /\ op' = Ret("Switch", NoKey, <<>>, name, "checkout branch")
       /\ saved' = NoKey
       /\ UNCHANGED <<cwd, pc, run, fs, index, commits, branches, head, now>>
  ELSE LET tree == commits[branches[name]].tree
           r == ResetWorktree(fs, index, tree)
       IN /\ index' = tree
          /\ fs' = r.fs
          /\ op' = Ret("Switch", NoKey, <<>>, name,
                       IF r.err = "nil" THEN "nil" ELSE "checkout branch")
          /\ saved' = NoKey
          /\ UNCHANGED <<cwd, pc, run, commits, branches, head, now>>

\* Switch: worktree.Checkout resolves the branch, points HEAD at it, then
\* does a merge reset: it refuses unstaged changes, else resets the index
\* and the working tree to the branch's commit
Switch(name) ==
  IF ~BranchExists(name)
  THEN /\ op' = Ret("Switch", NoKey, <<>>, name, "checkout branch")
       /\ saved' = NoKey
       /\ UNCHANGED <<cwd, pc, run, fs, index, commits, branches, head, now>>
  ELSE IF Unstaged
  THEN /\ head' = name
       /\ op' = Ret("Switch", NoKey, <<>>, name, "checkout branch")
       /\ saved' = NoKey
       /\ UNCHANGED <<cwd, pc, run, fs, index, commits, branches, now>>
  ELSE LET tree == commits[branches[name]].tree
           r == ResetWorktree(fs, index, tree)
       IN /\ head' = name
          /\ index' = tree
          /\ fs' = r.fs
          /\ op' = Ret("Switch", NoKey, <<>>, name,
                       IF r.err = "nil" THEN "nil" ELSE "checkout branch")
          /\ saved' = NoKey
          /\ UNCHANGED <<cwd, pc, run, commits, branches, now>>

\* a DeleteBranch that reports success for the current branch
DeleteBranchUnguarded(name) ==
  /\ branches' = IF head = name THEN branches
                 ELSE [b \in DOMAIN branches \ {name} |-> branches[b]]
  /\ op' = Ret("DeleteBranch", NoKey, <<>>, name, "nil")
  /\ saved' = NoKey
  /\ UNCHANGED <<cwd, pc, run, fs, index, commits, head, now>>

\* a DeleteBranch without the test for the current branch
DeleteBranchAny(name) ==
  /\ branches' = [b \in DOMAIN branches \ {name} |-> branches[b]]
  /\ op' = Ret("DeleteBranch", NoKey, <<>>, name, "nil")
  /\ saved' = NoKey
  /\ UNCHANGED <<cwd, pc, run, fs, index, commits, head, now>>

\* DeleteBranch: refuses the current branch, else RemoveReference
DeleteBranch(name) ==
  IF head = name
  THEN /\ op' = Ret("DeleteBranch", NoKey, <<>>, name, "cannot delete current branch")
       /\ saved' = NoKey
       /\ UNCHANGED <<cwd, pc, run, fs, index, commits, branches, head, now>>
  ELSE /\ branches' = [b \in DOMAIN branches \ {name} |-> branches[b]]
       /\ op' = Ret("DeleteBranch", NoKey, <<>>, name, "nil")
       /\ saved' = NoKey
       /\ UNCHANGED <<cwd, pc, run, fs, index, commits, head, now>>

\* repo.ResolveRevision: a branch name, HEAD, HEAD~1 or a commit hash;
\* 0 when the revision does not resolve
ResolveRevision(ref) ==
  IF ref \in DOMAIN branches THEN branches[ref]
  ELSE IF ref = "HEAD" THEN HeadCommit
  ELSE IF ref = "HEAD~1" THEN commits[HeadCommit].parent
  ELSE IF \E i \in 1..Len(commits) : ToString(i) = ref
    THEN CHOOSE i \in 1..Len(commits) : ToString(i) = ref
  ELSE 0

\* Revert: ResolveRevision, then a hard reset of the current branch, the
\* index and the working tree
Revert(ref) ==
  IF ResolveRevision(ref) = 0
  THEN /\ op' = Ret("Revert", NoKey, <<>>, ref, "resolve ref")
       /\ saved' = NoKey
       /\ UNCHANGED <<cwd, pc, run, fs, index, commits, branches, head, now>>
  ELSE LET c == ResolveRevision(ref)
           r == ResetWorktree(fs, index, commits[c].tree)
       IN /\ branches' = [branches EXCEPT ![head] = c]
          /\ index' = commits[c].tree
          /\ fs' = r.fs
          /\ op' = Ret("Revert", NoKey, <<>>, ref, IF r.err = "nil" THEN "nil" ELSE "reset")
          /\ saved' = NoKey
          /\ UNCHANGED <<cwd, pc, run, commits, head, now>>

\* ------------------------------------------------------------- the store
\* keys, contents, messages and names the operations are called with
KeyA == <<"a">>
KeyAB == <<"a","/","b">>
StoreKeys == {KeyA, KeyAB}
StoreContents == {<<"v">>, <<"w","\n","v">>}
StoreMessages == {<<"m">>}
BranchNames == {"master", "dev"}
Revisions == {"dev", "HEAD~1", "1", "9"}

Init == InitRepository

Next ==
  \/ \E k \in StoreKeys, c \in StoreContents : Save(k, c)
  \/ \E k \in StoreKeys : Delete(k)
  \/ \E m \in StoreMessages : Len(commits) < MaxCommits /\ Commit(m)
  \/ \E n \in BranchNames : Create(n)
  \/ \E n \in BranchNames : Switch(n)
  \/ \E n \in BranchNames : DeleteBranch(n)
  \/ \E r \in Revisions : Revert(r)

Spec == Init /\ [][Next]_vars

\* ------------------------------------------------------------------ claims
\* C1: every Save(k, c) succeeds, and afterwards Get(k) returns c and
\* Exists(k) is true, also when another stored key is a path prefix of k
\* or k is a path prefix of another stored key.
C1_SaveThenGet ==
  op.name = "Save" =>
    /\ op.err = "nil"
    /\ Get(op.key) = [err |-> "nil", content |-> op.arg]
    /\ Exists(op.key) = [val |-> TRUE, err |-> "nil"]

\* C2: for every key, Exists(k) is true iff Get(k) succeeds iff a regular
\* file holding the content is at the key's path.
C2_ExistenceIsFile ==
  \A k \in StoreKeys :
    /\ Exists(k).val <=> Get(k).err = "nil"
    /\ Get(k).err = "nil" <=> IsFile(fs, keyToPath(k))

\* C5: Delete(k) called after Save(k, _), with or without commits in
\* between, succeeds and leaves Exists(k) false and Get(k) NotFound.
C5_DeleteAfterSave ==
  [][(saved # NoKey /\ op'.name = "Delete" /\ op'.key = saved) =>
        /\ op'.err = "nil"
        /\ Exists(op.key)' = [val |-> FALSE, err |-> "nil"]
        /\ Get(op.key)'.err = "ErrNotFound"]_vars

\* C6: Delete(k) of a key that has no file returns NotFound and changes
\* neither the working tree nor the staged changes nor the log.
C6_DeleteAbsent ==
  [][(op'.name = "Delete" /\ ~IsFile(fs, keyToPath(op'.key))) =>
        /\ op'.err = "ErrNotFound"
        /\ fs' = fs /\ index' = index /\ Log(0)' = Log(0)]_vars

\* C7: a Save never creates history: the log, the current branch and every
\* branch head are the same after it as before.
C7_SaveKeepsHistory ==
  [][(op'.name = "Save" /\ now' = now) =>
        /\ Log(0)' = Log(0)
        /\ head' = head
        /\ branches' = branches
        /\ commits' = commits]_vars
\* a Save has staged a change and the history is still the first commit
C7_Witness ==
  op.name = "Save" /\ op.err = "nil" /\ index # HeadTree /\ Len(commits) = 1

\* ------------------------------------------------- the key-to-path mapping
\* keys that filepath.Join cleans: a trailing slash, a climb out of the
\* root, a segment named like the metadata directory
KeyASlash == <<"a","/">>
KeyEscape == <<"a","/",".",".","/",".",".","/","x">>
KeyNested == <<"b","/",".","m","e","m","/","c">>
PathKeys == {KeyA, KeyASlash, KeyEscape, KeyNested}
ListPrefixes == {<<>>, <<"a">>, <<"b">>}

NextKeys ==
  \/ \E k \in PathKeys, c \in StoreContents : Save(k, c)
  \/ \E k \in PathKeys : Delete(k)
  \/ \E m \in StoreMessages : Len(commits) < MaxCommits /\ Commit(m)
  \/ \E r \in {"HEAD", "HEAD~1"} : Revert(r)

SpecKeys == Init /\ [][NextKeys]_vars

\* the file a key's memory lives in, when there is one
FileOf(k) ==
  IF IsFile(fs, keyToPath(k)) THEN <<fs[keyToPath(k)].content>> ELSE <<>>

\* C3: different valid keys map to different paths inside the working root,
\* so a Save or Delete of one key leaves the file of every other key and
\* every file outside the root as it was.
C3_KeysApart ==
  [][(op'.name \in {"Save", "Delete"}) =>
        /\ IsUnder(keyToPath(op'.key), RootPath)
        /\ \A k \in PathKeys \ {op'.key} :
             /\ NewKey(k).err = "nil"
             /\ keyToPath(k) # keyToPath(op'.key)
             /\ FileOf(k)' = FileOf(k)
        /\ OutsideFiles(fs)' = OutsideFiles(fs)]_vars

\* the keys List(prefix) returns
ListedKeys(prefix) == {List(prefix)[i].key : i \in 1..Len(List(prefix))}

\* C4: List(prefix) returns exactly the stored keys that start with the
\* prefix, once each and with their content; List("") returns every
\* stored key whatever its segments are named.
C4_ListExact ==
  \A prefix \in ListPrefixes :
    /\ \A k \in {KeyA, KeyNested} :
         (Get(k).err = "nil" /\ HasPrefix(k, prefix)) <=> k \in ListedKeys(prefix)
    /\ \A i \in 1..Len(List(prefix)) :
         /\ HasPrefix(List(prefix)[i].key, prefix)
         /\ Get(List(prefix)[i].key) = [err |-> "nil", content |-> List(prefix)[i].content]
         /\ \A j \in 1..Len(List(prefix)) : List(prefix)[j].key = List(prefix)[i].key => i = j

\* ---------------------------------------------------------------- history
HistContents == {<<"v">>, <<"w">>}
HistMessages == {<<"m">>, <<" ","n">>}

NextHist ==
  \/ \E c \in HistContents : Save(KeyA, c)
  \/ \E m \in HistMessages : Len(commits) < MaxHistCommits /\ Commit(m)
  \/ Revert("HEAD~1")
  \/ Tick

SpecHist == Init /\ [][NextHist]_vars

NothingStaged == \A p \in StatusPaths : StagingStatus(p) = "Unmodified"
LogHashes == {Log(0)[i].Hash : i \in 1..Len(Log(0))}

\* C8 as claimed: Commit fails when nothing is staged; otherwise it puts
\* one new entry in front of Log, whose Message equals the message given
\* and whose Hash differs from the hash of every commit made before.
C8_CommitAppends ==
  [][(op'.name = "Commit" /\ now' = now) =>
        IF NothingStaged
        THEN op'.err # "nil" /\ Log(0)' = Log(0)
        ELSE /\ op'.err = "nil"
             /\ Tail(Log(0))' = Log(0)
             /\ Head(Log(0))'.Message = op'.arg
             /\ Head(Log(0))'.Hash \notin 1..Len(commits)]_vars

\* C8 amended: Commit fails when nothing is staged; otherwise it puts one
\* new entry in front of Log, whose Message is the message given with the
\* surrounding white space trimmed and whose Hash differs from the hash of
\* every entry Log held before; the earlier entries are unchanged.
C8_CommitAppendsTrimmed ==
  [][(op'.name = "Commit" /\ now' = now) =>
        IF NothingStaged
        THEN op'.err # "nil" /\ Log(0)' = Log(0) /\ index' = index
        ELSE /\ op'.err = "nil"
             /\ Tail(Log(0))' = Log(0)
             /\ Head(Log(0))'.Message = TrimSpace(op'.arg)
             /\ Head(Log(0))'.Hash >= 1
             /\ Head(Log(0))'.Hash \notin LogHashes]_vars
\* a commit whose message began with a blank is in front of the log
C8_Witness ==
  /\ op.name = "Commit" /\ op.err = "nil" /\ op.arg = <<" ","n">>
  /\ Len(Log(0)) = 3 /\ Log(0)[1].Message = <<"n">>

Min(a, b) == IF a < b THEN a ELSE b

\* C9: Log lists the commits reachable from the current head, newest
\* first: it starts at the head, every entry is followed by its parent,
\* which was made earlier, and it ends at the first commit; a limit <= 0
\* returns all of it and a limit n > 0 its first min(n, total) entries.
C9_LogNewestFirst ==
  LET all == Log(0) IN
  /\ all # <<>> /\ all[1].Hash = HeadCommit
  /\ all[Len(all)].Parents = <<>>
  /\ \A i \in 1..(Len(all) - 1) :
       /\ all[i].Parents = <<all[i + 1].Hash>>
       /\ all[i].Hash > all[i + 1].Hash
  /\ \A n \in (0 - 1)..MaxLimit :
       Log(n) = IF n <= 0 THEN all ELSE SubSeq(all, 1, Min(n, Len(all)))
\* three commits on the branch and a limit that cuts the log
C9_Witness ==
  /\ Len(Log(0)) = 3 /\ Len(Log(2)) = 2
  /\ Log(0)[1].Message # Log(0)[2].Message

\* the worktree-relative path a key's file is staged under
RelOfKey(k) == FilepathRel(RootPath, keyToPath(k))

\* C10 as claimed: Diff("") is empty on a clean tree, and after a Save it
\* is non-empty and contains the saved content.
C10_DiffShowsSave ==
  /\ IsClean => diffWorktreeVsHead = {<<>>}
  /\ op.name = "Save" =>
       \A d \in diffWorktreeVsHead : d # <<>> /\ Contains(d, op.arg)

\* C10 amended: Diff("") is empty on a clean tree; after a successful Save
\* that left the key's path staged as added or modified against HEAD it is
\* non-empty and holds the "+++ b/<path>" header and every line of the
\* saved content, each line prefixed with "+".
C10_DiffShowsStagedSave ==
  /\ IsClean => diffWorktreeVsHead = {<<>>}
  /\ (/\ op.name = "Save" /\ op.err = "nil"
      /\ StagingStatus(RelOfKey(op.key)) \in {"Added", "Modified"}) =>
       \A d \in diffWorktreeVsHead :
         /\ d # <<>>
         /\ Contains(d, Plus3 \o <<"b","/">> \o JoinStr(RelOfKey(op.key), "/") \o <<"\n">>)
         /\ Contains(d, PrefixedLines(Split(op.arg, "\n"), "+"))
\* a Save has replaced committed content by two lines
C10_Witness ==
  /\ op.name = "Save" /\ op.arg = <<"w","\n","v">>
  /\ StagingStatus(RelOfKey(op.key)) = "Modified"

\* ---------------------------------------------------------------- Revert
\* what Get and Exists report for key k when the working tree is exactly
\* the snapshot tree
SnapshotGet(tree, k) ==
  IF RelOfKey(k) \in DOMAIN tree
  THEN [err |-> "nil", content |-> tree[RelOfKey(k)]]
  ELSE [err |-> "ErrNotFound", content |-> <<>>]
SnapshotExists(tree, k) ==
  [val |-> RelOfKey(k) \in DOMAIN tree, err |-> "nil"]

\* C11: after a successful Revert(ref) the current branch's head is the
\* commit ref resolved to, Log starts at that commit, Get and Exists of
\* every key report exactly that commit's snapshot, and Diff("") is empty.
C11_RevertRestores ==
  [][(op'.name = "Revert" /\ op'.err = "nil") =>
       LET c == ResolveRevision(op'.ref) IN
       /\ head' = head
       /\ branches'[head'] = c
       /\ Head(Log(0)').Hash = c
       /\ \A k \in StoreKeys :
            /\ Get(k)' = SnapshotGet(commits[c].tree, k)
            /\ Exists(k)' = SnapshotExists(commits[c].tree, k)
       /\ diffWorktreeVsHead' = {<<>>}]_vars

\* --------------------------------------------------------------- branches
\* C12: Create(name) for a new name adds a branch at the current HEAD
\* commit and does not switch: Current() is the same, the working tree and
\* the staged changes are unchanged, and ListBranches gains exactly name.
C12_CreateDoesNotSwitch ==
  [][(op'.name = "Create" /\ ~BranchExists(op'.ref)) =>
       /\ op'.err = "nil"
       /\ Current' = Current
       /\ fs' = fs /\ index' = index
       /\ Len(ListBranches') = Len(ListBranches) + 1
       /\ {ListBranches'[i] : i \in 1..Len(ListBranches')}
            = {ListBranches[i] : i \in 1..Len(ListBranches)}
              \cup {[Name |-> op'.ref, Head |-> HeadCommit]}]_vars
\* dev was created at a second commit while changes were staged on master
C12_Witness ==
  /\ op.name = "Create" /\ op.ref = "dev" /\ head = "master"
  /\ branches = [master |-> 2, dev |-> 2] /\ index # HeadTree

\* C13: Create(n) followed by Switch(n) makes Current().Name equal to n;
\* Switch(n) for a name that is not a branch fails and leaves Current()
\* unchanged.
C13_CreateThenSwitch ==
  [][/\ (op.name = "Create" /\ op.err = "nil" /\ op'.name = "Switch" /\ op'.ref = op.ref)
          => Current'.Name = op.ref
     /\ (op'.name = "Switch" /\ ~BranchExists(op'.ref))
          => (op'.err # "nil" /\ Current' = Current)]_vars
\* dev was created on master and then switched to
C13_Witness ==
  /\ op.name = "Switch" /\ op.ref = "dev" /\ op.err = "nil"
  /\ Current = [Name |-> "dev", Head |-> 2]

\* C14: after Switch(b) succeeds from a tree with no uncommitted changes,
\* Get of every key returns what b's head commit holds for it, and NotFound
\* for a key that commit does not hold.
C14_SwitchChecksOut ==
  [][(op'.name = "Switch" /\ op'.err = "nil" /\ IsClean) =>
       \A k \in StoreKeys :
         Get(k)' = SnapshotGet(commits[branches[op'.ref]].tree, k)]_vars

\* the store driven with three branch names and one key
BranchSet == {"master", "dev", "fix"}
NextBranch ==
  \/ \E c \in HistContents : Save(KeyA, c)
  \/ \E m \in StoreMessages : Len(commits) < MaxCommits /\ Commit(m)
  \/ \E n \in BranchSet : Create(n)
  \/ \E n \in BranchSet : Switch(n)
  \/ \E n \in BranchSet : DeleteBranch(n)
SpecBranch == Init /\ [][NextBranch]_vars

\* C15: DeleteBranch(name) fails and leaves the branches unchanged when
\* name is the current branch; for an existing other branch it succeeds,
\* name leaves ListBranches, and the current branch and the head of every
\* other branch are unchanged.
C15_DeleteBranch ==
  [][op'.name = "DeleteBranch" =>
       /\ op'.ref = head =>
            (op'.err # "nil" /\ branches' = branches /\ Current' = Current)
       /\ (op'.ref # head /\ BranchExists(op'.ref)) =>
            /\ op'.err = "nil"
            /\ \A i \in 1..Len(ListBranches') : ListBranches'[i].Name # op'.ref
            /\ Current' = Current
            /\ \A b \in DOMAIN branches \ {op'.ref} :
                 b \in DOMAIN branches' /\ branches'[b] = branches[b]]_vars
\* dev was deleted while fix, at another commit than master, stayed
C15_Witness ==
  /\ op.name = "DeleteBranch" /\ op.ref = "dev" /\ op.err = "nil"
  /\ branches = [master |-> 2, fix |-> 1]

\* ------------------------------------------------------------------ scopes
HomeDir == << <<"h">> >>                 \* os.UserHomeDir at construction
ProjDir == << <<"h">>, <<"p">> >>        \* a directory below home
OutDir == << <<"o">> >>                  \* a directory outside home
MemName == <<".","m","e","m">>

ScopeOf(type, dir) == [Type |-> type, Path |-> dir, MemPath |-> Append(dir, MemName)]
NoScope == [Type |-> "", Path |-> <<>>, MemPath |-> <<>>]     \* Scope{}

Global == ScopeOf("global", HomeDir)

\* os.Getwd fails once the working directory has been removed
Getwd == IF Stat(fs, cwd) = "nil" /\ IsDir(fs, cwd)
         THEN [err |-> "nil", dir |-> cwd] ELSE [err |-> "ENOENT", dir |-> <<>>]

\* the walk from dir up to the filesystem root
RECURSIVE findProjectScope(_)
findProjectScope(dir) ==
  LET memPath == Append(dir, MemName) IN
  IF Stat(fs, memPath) = "nil" /\ IsDir(fs, memPath)
  THEN [ok |-> TRUE, scope |-> ScopeOf("project", dir)]
  ELSE IF Parent(dir) = dir THEN [ok |-> FALSE, scope |-> NoScope]
  ELSE findProjectScope(Parent(dir))

Project ==
  IF Getwd.err # "nil" THEN [ok |-> FALSE, scope |-> NoScope]
  ELSE findProjectScope(Getwd.dir)

\* a Resolve that prefers a discoverable project to the hint
ResolveProjectFirst(explicit) ==
  IF Project.ok THEN Project.scope ELSE Global

Resolve(explicit) ==
  IF explicit = "global" THEN Global
  ELSE IF Project.ok THEN Project.scope
  ELSE Global

\* a Cascade that lists the global scope first
CascadeGlobalFirst ==
  <<Global>> \o (IF Project.ok THEN <<Project.scope>> ELSE <<>>)

Cascade ==
  (IF Project.ok THEN <<Project.scope>> ELSE <<>>) \o <<Global>>

\* NewGitRepository(scope): the metadata path must exist and hold a
\* repository (a metadata directory is one; a plain file is not)
RepoFor(scope) ==
  IF Stat(fs, scope.MemPath) = "ENOENT" THEN "repository not initialized"
  ELSE IF Stat(fs, scope.MemPath) # "nil" \/ ~IsDir(fs, scope.MemPath)
    THEN "open repository"
  ELSE "nil"

\* Get on the repository opened for a scope
ScopeGet(scope, key) ==
  LET path == FilepathJoin(scope.Path, key) IN
  IF Stat(fs, path) = "ENOENT" THEN [err |-> "ErrNotFound", content |-> <<>>]
  ELSE IF Stat(fs, path) # "nil" THEN [err |-> "stat file", content |-> <<>>]
  ELSE IF ReadFile(fs, path).err # "nil" THEN [err |-> "read file", content |-> <<>>]
  ELSE [err |-> "nil", content |-> ReadFile(fs, path).content]

\* the loop over the scopes: the first scope whose repository opens and
\* whose Get succeeds answers; every error moves on to the next scope
RECURSIVE SearchScopes(_, _)
SearchScopes(scopes, key) ==
  IF scopes = <<>> THEN [err |-> "ErrNotFound", content |-> <<>>]
  ELSE IF RepoFor(Head(scopes)) # "nil" THEN SearchScopes(Tail(scopes), key)
  ELSE IF ScopeGet(Head(scopes), key).err # "nil" THEN SearchScopes(Tail(scopes), key)
  ELSE ScopeGet(Head(scopes), key)

\* a use case that searches the cascade whatever the hint
GetMemoryIgnoringHint(scopeHint, keyString) ==
  IF NewKey(keyString).err # "nil" THEN [err |-> "ErrInvalidKey", content |-> <<>>]
  ELSE SearchScopes(Cascade, NewKey(keyString).key)

\* GetMemoryUseCase.Execute
GetMemory(scopeHint, keyString) ==
  IF NewKey(keyString).err # "nil" THEN [err |-> "ErrInvalidKey", content |-> <<>>]
  ELSE SearchScopes(IF scopeHint # "" THEN <<Resolve(scopeHint)>> ELSE Cascade,
                    NewKey(keyString).key)

\* the result of a call in the scope world: as Ret, with the scopes returned
ScopeRet(name, key, arg, ref, err, scopes) ==
  [name |-> name, key |-> key, arg |-> arg, ref |-> ref, err |-> err,
   scopes |-> scopes]
ScopeFrame == UNCHANGED <<index, commits, branches, head, now, saved, pc, run>>

\* os.Chdir
Chdir(d) ==
  /\ IsDir(fs, d)
  /\ cwd' = d
  /\ op' = ScopeRet("Chdir", NoKey, <<>>, "", "nil", <<>>)
  /\ UNCHANGED fs /\ ScopeFrame

\* a directory and everything below it is removed from outside
RemoveTree(d) ==
  /\ IsDir(fs, d)
  /\ fs' = [q \in {x \in DOMAIN fs : x # d /\ ~IsUnder(x, d)} |-> fs[q]]
  /\ op' = ScopeRet("RemoveTree", NoKey, <<>>, "", "nil", <<>>)
  /\ UNCHANGED cwd /\ ScopeFrame

\* a plain file named .mem is put into a directory from outside
WriteMemFile(d) ==
  /\ IsDir(fs, d) /\ Stat(fs, Append(d, MemName)) = "ENOENT"
  /\ fs' = (Append(d, MemName) :> FileNode(<<>>)) @@ fs
  /\ op' = ScopeRet("WriteMemFile", NoKey, <<>>, "", "nil", <<>>)
  /\ UNCHANGED cwd /\ ScopeFrame

\* InitRepository for the scope rooted at d: the metadata directory and the
\* sentinel on disk (the engine's objects live inside the directory)
InitRepositoryAt(d) ==
  LET scope == ScopeOf("project", d)
      mk == MkdirAll(fs, scope.MemPath)
      wr == WriteFile(mk.fs, Append(d, InitName), InitContent)
      err == IF mk.err # "nil" THEN "create .mem directory"
             ELSE IF IsDir(fs, scope.MemPath) THEN "init repository"
             ELSE IF wr.err # "nil" THEN "write init file"
             ELSE "nil"
  IN /\ fs' = IF mk.err # "nil" \/ err = "init repository" THEN fs
              ELSE IF wr.err # "nil" THEN mk.fs ELSE wr.fs
     /\ op' = ScopeRet("InitRepository", NoKey, <<>>, "", err, <<scope>>)
     /\ UNCHANGED cwd /\ ScopeFrame

\* SetMemoryUseCase.Execute: Resolve, open the repository, Save (the file
\* is written below the scope's root and staged in that scope's engine)
SetMemory(scopeHint, keyString, content) ==
  LET scope == Resolve(scopeHint)
      path == FilepathJoin(scope.Path, NewKey(keyString).key)
      mk == MkdirAll(fs, Parent(path))
      wr == WriteFile(mk.fs, path, content)
      err == IF NewKey(keyString).err # "nil" THEN "ErrInvalidKey"
             ELSE IF RepoFor(scope) # "nil" THEN "get repository"
             ELSE IF mk.err # "nil" \/ wr.err # "nil" THEN "save memory"
             ELSE "nil"
  IN /\ fs' = IF err \in {"ErrInvalidKey", "get repository"} \/ mk.err # "nil" THEN fs
              ELSE IF wr.err # "nil" THEN mk.fs ELSE wr.fs
     /\ op' = ScopeRet("SetMemory", keyString, content, scopeHint, err, <<scope>>)
     /\ UNCHANGED cwd /\ ScopeFrame

ResolveCall(scopeHint) ==
  /\ op' = ScopeRet("Resolve", NoKey, <<>>, scopeHint, "nil", <<Resolve(scopeHint)>>)
  /\ UNCHANGED <<cwd, fs>> /\ ScopeFrame

CascadeCall ==
  /\ op' = ScopeRet("Cascade", NoKey, <<>>, "", "nil", Cascade)
  /\ UNCHANGED <<cwd, fs>> /\ ScopeFrame

GetMemoryCall(scopeHint, keyString) ==
  LET r == GetMemory(scopeHint, keyString) IN
  /\ op' = ScopeRet("GetMemory", keyString, r.content, scopeHint, r.err, <<>>)
  /\ UNCHANGED <<cwd, fs>> /\ ScopeFrame

ScopeDirs == {HomeDir, ProjDir, OutDir}
ScopeHints == {"", "global", "project"}
ScopeContents == {<<"v">>, <<"w">>}

\* three directories, no store yet, the process in its home directory
InitScope ==
  /\ fs = (HomeDir :> DirNode) @@ (ProjDir :> DirNode) @@ (OutDir :> DirNode)
  /\ cwd = HomeDir
  /\ index = <<>> /\ commits = <<>> /\ branches = <<>>
  /\ head = "" /\ now = 0 /\ saved = NoKey /\ pc = Idle /\ run = NoRun
  /\ op = ScopeRet("NewScopeResolver", NoKey, <<>>, "", "nil", <<>>)

NextScope ==
  \/ \E d \in ScopeDirs : Chdir(d)
  \/ RemoveTree(OutDir)
  \/ \E d \in ScopeDirs : WriteMemFile(d)
  \/ \E d \in ScopeDirs : InitRepositoryAt(d)
  \/ \E h \in ScopeHints, c \in ScopeContents : SetMemory(h, KeyA, c)
  \/ \E h \in ScopeHints : ResolveCall(h)
  \/ CascadeCall
  \/ \E h \in ScopeHints : GetMemoryCall(h, KeyA)
SpecScope == InitScope /\ [][NextScope]_vars

\* the directories from the working directory up to the root that hold a
\* store-metadata directory
MemAbove == {i \in 0..Len(cwd) : IsDir(fs, Append(SubSeq(cwd, 1, i), MemName))}
Discoverable == IsDir(fs, cwd) /\ MemAbove # {}
NearestProject ==
  ScopeOf("project", SubSeq(cwd, 1, CHOOSE i \in MemAbove : \A j \in MemAbove : j <= i))

\* C16: Resolve(hint) is the global scope whenever hint is "global"; for
\* every other hint it is the project scope when a store-metadata directory
\* is found walking up from the working directory, else the global scope.
C16_Resolve ==
  op.name = "Resolve" =>
    op.scopes = << IF op.ref = "global" THEN ScopeOf("global", HomeDir)
                   ELSE IF Discoverable THEN NearestProject
                   ELSE ScopeOf("global", HomeDir) >>
\* "global" was asked for inside a discoverable project
C16_Witness ==
  /\ op.name = "Resolve" /\ op.ref = "global"
  /\ Discoverable /\ NearestProject.Path = ProjDir

\* C17: Cascade() is [project, global] when a project scope is
\* discoverable and [global] otherwise; the global scope is always last.
C17_Cascade ==
  op.name = "Cascade" =>
    /\ op.scopes = IF Discoverable
                   THEN <<NearestProject, ScopeOf("global", HomeDir)>>
                   ELSE <<ScopeOf("global", HomeDir)>>
    /\ op.scopes[Len(op.scopes)].Type = "global"
\* the cascade of a process inside the project below home
C17_Witness ==
  /\ op.name = "Cascade" /\ Len(op.scopes) = 2
  /\ op.scopes[1].Path = ProjDir /\ cwd = ProjDir

\* key k exists in a scope: the scope's store is there and k's file is in
\* its working root
HoldsKey(scope, k) ==
  IsDir(fs, scope.MemPath) /\ IsFile(fs, FilepathJoin(scope.Path, k))
ContentIn(scope, k) == fs[FilepathJoin(scope.Path, k)].content
\* what a search of one scope answers
Answer(scope, k) ==
  IF HoldsKey(scope, k) THEN [err |-> "nil", content |-> ContentIn(scope, k)]
  ELSE [err |-> "ErrNotFound", content |-> <<>>]

\* C18: a Get through the use case with no hint returns the project
\* scope's memory when the key exists there, else the global scope's memory
\* when it exists there, and NotFound only when it exists in neither; with
\* a hint only the scope the hint resolves to is searched.
C18_CascadingGet ==
  op.name = "GetMemory" =>
    LET glob == ScopeOf("global", HomeDir)
        resolved == IF op.ref = "global" \/ ~Discoverable THEN glob
                    ELSE NearestProject
        got == [err |-> op.err, content |-> op.arg]
    IN IF op.ref # "" THEN got = Answer(resolved, op.key)
       ELSE IF Discoverable /\ HoldsKey(NearestProject, op.key)
         THEN got = Answer(NearestProject, op.key)
       ELSE got = Answer(glob, op.key)
\* the key is in both scopes with different contents and the project's won
C18_Witness ==
  /\ op.name = "GetMemory" /\ op.ref = "" /\ cwd = ProjDir
  /\ HoldsKey(ScopeOf("project", ProjDir), op.key)
  /\ HoldsKey(ScopeOf("global", HomeDir), op.key)
  /\ ContentIn(ScopeOf("project", ProjDir), op.key)
       # ContentIn(ScopeOf("global", HomeDir), op.key)
  /\ op.arg = ContentIn(ScopeOf("project", ProjDir), op.key)

\* ------------------------------------------------------------------- hooks
\* "# mem: managed post-commit hook"
HookMarker ==
  <<"#"," ","m","e","m",":"," ","m","a","n","a","g","e","d"," ","p","o","s","t","-","c","o","m","m","i","t"," ","h","o","o","k">>
\* HookScript(hookType): the shell shim
HookScript(hookType) ==
  <<"#","!","/","b","i","n","/","s","h","\n">> \o HookMarker
  \o <<"\n","e","x","e","c"," ","m","e","m"," ","h","o","o","k"," ","r","u","n"," ">> \o hookType
  \o <<" ","\"","$","@","\"","\n">>
PostCommitName == <<"p","o","s","t","-","c","o","m","m","i","t">>
IsManagedHook(content) == Contains(content, HookMarker)

GitName == <<".","g","i","t">>
\* FindGitDir: the walk from dir up to the filesystem root
RECURSIVE FindGitDir(_)
FindGitDir(dir) ==
  LET gitDir == Append(dir, GitName) IN
  IF Stat(fs, gitDir) = "nil" /\ IsDir(fs, gitDir)
  THEN [err |-> "nil", dir |-> gitDir]
  ELSE IF Parent(dir) = dir THEN [err |-> "not a git repository", dir |-> <<>>]
  ELSE FindGitDir(Parent(dir))

HooksDir(gitDir) == Append(gitDir, <<"h","o","o","k","s">>)
HookPath(gitDir) == Append(HooksDir(gitDir), PostCommitName)
BakPath(gitDir) == Append(HooksDir(gitDir), PostCommitName \o <<".","b","a","k">>)
\* Scope.ConfigPath
ConfigPath(scope) ==
  Append(scope.MemPath, <<"c","o","n","f","i","g",".","y","a","m","l">>)

\* the configuration document; the file holds the document SaveConfig
\* marshalled
\* "hooks/commits"
DefaultKeyPrefix == <<"h","o","o","k","s","/","c","o","m","m","i","t","s">>
NoHook == [Enabled |-> FALSE, Scope |-> "", Strategy |-> "", Script |-> <<>>,
           KeyPrefix |-> <<>>]
DefaultConfig ==
  [Embeddings |-> [Backend |-> "gollama", Dimension |-> 384],
   Hooks |-> [PostCommit |-> NoHook]]
LoadConfig(f, scope) ==
  LET data == ReadFile(f, ConfigPath(scope)) IN
  IF data.err = "ENOENT" THEN [err |-> "nil", cfg |-> DefaultConfig]
  ELSE IF data.err # "nil" THEN [err |-> "read config", cfg |-> DefaultConfig]
  ELSE [err |-> "nil", cfg |-> data.content]
SaveConfig(f, scope, cfg) ==
  LET wr == WriteFile(f, ConfigPath(scope), cfg) IN
  [err |-> IF wr.err # "nil" THEN "write config" ELSE "nil", fs |-> wr.fs]

\* the result of a hook call: as Ret, with the call's input
HookRet(name, input, err) ==
  [name |-> name, key |-> NoKey, arg |-> <<>>, ref |-> "", err |-> err,
   input |-> input]
HookFrame == UNCHANGED <<index, commits, branches, head, now, cwd, run>>
\* what the hook directory holds: the hook and its backup, as os.ReadFile
\* returns them
HookFiles(f, gitDir) ==
  [hook |-> ReadFile(f, HookPath(gitDir)), bak |-> ReadFile(f, BakPath(gitDir))]
\* saved remembers the hook directory as it was before the first of the
\* Install calls that follow one another
SavedBefore(gitDir) ==
  saved' = IF op.name = "Install" THEN saved ELSE HookFiles(fs, gitDir)

\* an Install that overwrites an unmanaged hook whatever the force flag
InstallBeginForced(input) ==
  LET scope == Resolve(input.Scope)
      git == FindGitDir(scope.Path)
      mk == MkdirAll(fs, HooksDir(git.dir))
      existing == ReadFile(mk.fs, HookPath(git.dir))
      unmanaged == existing.err = "nil" /\ ~IsManagedHook(existing.content)
      bak == WriteFile(mk.fs, BakPath(git.dir), existing.content)
      err == IF git.err # "nil" THEN git.err
             ELSE IF mk.err # "nil" THEN "create hooks directory"
             ELSE IF unmanaged /\ ~TRUE THEN "hook already exists"
             ELSE IF unmanaged /\ bak.err # "nil" THEN "backup existing hook"
             ELSE "pending"
  IN /\ pc = Idle
     /\ fs' = IF git.err # "nil" \/ mk.err # "nil" THEN fs
              ELSE IF err = "pending" /\ unmanaged THEN bak.fs
              ELSE mk.fs
     /\ pc' = IF err # "pending" THEN Idle
              ELSE [at |-> "hook", input |-> input, scope |-> scope,
                    hookPath |-> HookPath(git.dir),
                    existing |-> IF unmanaged THEN <<existing.content>> ELSE <<>>]
     /\ op' = HookRet("Install", input, err)
     /\ SavedBefore(git.dir)
     /\ HookFrame

\* an Install that overwrites an unmanaged hook without backing it up
InstallBeginNoBackup(input) ==
  LET scope == Resolve(input.Scope)
      git == FindGitDir(scope.Path)
      mk == MkdirAll(fs, HooksDir(git.dir))
      existing == ReadFile(mk.fs, HookPath(git.dir))
      unmanaged == existing.err = "nil" /\ ~IsManagedHook(existing.content)
      bak == WriteFile(mk.fs, BakPath(git.dir), existing.content)
      err == IF git.err # "nil" THEN git.err
             ELSE IF mk.err # "nil" THEN "create hooks directory"
             ELSE IF unmanaged /\ ~input.Force THEN "hook already exists"
             ELSE IF FALSE /\ bak.err # "nil" THEN "backup existing hook"
             ELSE "pending"
  IN /\ pc = Idle
     /\ fs' = IF git.err # "nil" \/ mk.err # "nil" THEN fs
              ELSE IF err = "pending" /\ FALSE THEN bak.fs
              ELSE mk.fs
     /\ pc' = IF err # "pending" THEN Idle
              ELSE [at |-> "hook", input |-> input, scope |-> scope,
                    hookPath |-> HookPath(git.dir),
                    existing |-> IF unmanaged THEN <<existing.content>> ELSE <<>>]
     /\ op' = HookRet("Install", input, err)
     /\ SavedBefore(git.dir)
     /\ HookFrame

\* Install, up to the backup: Resolve, FindGitDir, MkdirAll, the test of
\* the hook that is there, the backup of an unmanaged one under force
InstallBegin(input) ==
  LET scope == Resolve(input.Scope)
      git == FindGitDir(scope.Path)
      mk == MkdirAll(fs, HooksDir(git.dir))
      existing == ReadFile(mk.fs, HookPath(git.dir))
      unmanaged == existing.err = "nil" /\ ~IsManagedHook(existing.content)
      bak == WriteFile(mk.fs, BakPath(git.dir), existing.content)
      err == IF git.err # "nil" THEN git.err
             ELSE IF mk.err # "nil" THEN "create hooks directory"
             ELSE IF unmanaged /\ ~input.Force THEN "hook already exists"
             ELSE IF unmanaged /\ bak.err # "nil" THEN "backup existing hook"
             ELSE "pending"
  IN /\ pc = Idle
     /\ fs' = IF git.err # "nil" \/ mk.err # "nil" THEN fs
              ELSE IF err = "pending" /\ unmanaged THEN bak.fs
              ELSE mk.fs
     /\ pc' = IF err # "pending" THEN Idle
              ELSE [at |-> "hook", input |-> input, scope |-> scope,
                    hookPath |-> HookPath(git.dir),
                    existing |-> IF unmanaged THEN <<existing.content>> ELSE <<>>]
     /\ op' = HookRet("Install", input, err)
     /\ SavedBefore(git.dir)
     /\ HookFrame

\* Install: the shim is written over the hook
InstallWriteHook ==
  LET wr == WriteFile(fs, pc.hookPath, HookScript(PostCommitName)) IN
  /\ pc # Idle /\ pc.at = "hook"
  /\ fs' = wr.fs
  /\ pc' = IF wr.err # "nil" THEN Idle ELSE [pc EXCEPT !.at = "config"]
  /\ op' = HookRet("Install", pc.input, IF wr.err # "nil" THEN "write hook" ELSE "pending")
  /\ UNCHANGED saved /\ HookFrame

\* Install: LoadConfig, the hook settings, SaveConfig, return
InstallSaveConfig ==
  LET ld == LoadConfig(fs, pc.scope)
      strategy == IF pc.input.Strategy = "" THEN "extract" ELSE pc.input.Strategy
      cfg == [ld.cfg EXCEPT !.Hooks.PostCommit =
                [Enabled |-> TRUE, Scope |-> pc.input.Scope, Strategy |-> strategy,
                 Script |-> pc.input.Script,
                 KeyPrefix |-> DefaultKeyPrefix]]
      sv == SaveConfig(fs, pc.scope, cfg)
  IN /\ pc # Idle /\ pc.at = "config"
     /\ fs' = IF ld.err # "nil" THEN fs ELSE sv.fs
     /\ pc' = Idle
     /\ op' = HookRet("Install", pc.input,
                      IF ld.err # "nil" THEN "load config"
                      ELSE IF sv.err # "nil" THEN "save config" ELSE "nil")
     /\ UNCHANGED saved /\ HookFrame

\* git init in the home directory, from outside
GitInit ==
  /\ pc = Idle /\ Stat(fs, Append(HomeDir, GitName)) = "ENOENT"
  /\ fs' = (Append(HomeDir, GitName) :> DirNode) @@ fs
  /\ op' = HookRet("GitInit", <<>>, "nil")
  /\ UNCHANGED <<pc, saved>> /\ HookFrame

\* the user puts a hook of their own into the repository
UserWritesHook(content) ==
  LET gitDir == Append(HomeDir, GitName)
      mk == MkdirAll(fs, HooksDir(gitDir))
  IN /\ pc = Idle /\ IsDir(fs, gitDir)
     /\ fs' = WriteFile(mk.fs, HookPath(gitDir), content).fs
     /\ op' = HookRet("UserWritesHook", <<>>, "nil")
     /\ UNCHANGED <<pc, saved>> /\ HookFrame

\* the scope's configuration document is saved with its defaults
SaveDefaultConfig ==
  /\ pc = Idle
  /\ fs' = SaveConfig(fs, Resolve(""), DefaultConfig).fs
  /\ op' = HookRet("SaveConfig", <<>>, SaveConfig(fs, Resolve(""), DefaultConfig).err)
  /\ UNCHANGED <<pc, saved>> /\ HookFrame

\* what Uninstall does once the hook directory is found: the managed hook
\* gives way to its backup or is deleted, then the hook settings are cleared
UninstallResult(f, scope, gitDir, keepConfig, restore) ==
  LET hookPath == HookPath(gitDir)
      bakPath == BakPath(gitDir)
      content == ReadFile(f, hookPath)
      bak == ReadFile(f, bakPath)
      wr == WriteFile(f, hookPath, bak.content)
      f1 == IF content.err # "nil" THEN f
            ELSE IF restore /\ bak.err = "nil"
              THEN (IF IsFile(wr.fs, bakPath) THEN RemovePath(wr.fs, bakPath) ELSE wr.fs)
            ELSE RemovePath(f, hookPath)
      ld == LoadConfig(f1, scope)
      sv == SaveConfig(f1, scope, [ld.cfg EXCEPT !.Hooks.PostCommit = NoHook])
  IN IF content.err = "nil" /\ ~IsManagedHook(content.content)
       THEN [err |-> "hook is not managed by mem", fs |-> f]
     ELSE IF content.err = "nil" /\ restore /\ bak.err = "nil" /\ wr.err # "nil"
       THEN [err |-> "restore backup", fs |-> f]
     ELSE IF keepConfig \/ ld.err # "nil" THEN [err |-> "nil", fs |-> f1]
     ELSE [err |-> "nil", fs |-> sv.fs]

\* an Uninstall that deletes the managed hook and never looks for a backup
UninstallNoRestore(input) ==
  LET scope == Resolve(input.Scope)
      git == FindGitDir(scope.Path)
      r == UninstallResult(fs, scope, git.dir, input.KeepConfig, FALSE)
  IN /\ pc = Idle
     /\ fs' = IF git.err # "nil" THEN fs ELSE r.fs
     /\ op' = HookRet("Uninstall", input, IF git.err # "nil" THEN git.err ELSE r.err)
     /\ UNCHANGED <<pc, saved>> /\ HookFrame

\* UninstallHookUseCase.Execute
Uninstall(input) ==
  LET scope == Resolve(input.Scope)
      git == FindGitDir(scope.Path)
      r == UninstallResult(fs, scope, git.dir, input.KeepConfig, TRUE)
  IN /\ pc = Idle
     /\ fs' = IF git.err # "nil" THEN fs ELSE r.fs
     /\ op' = HookRet("Uninstall", input, IF git.err # "nil" THEN git.err ELSE r.err)
     /\ UNCHANGED <<pc, saved>> /\ HookFrame

\* the user deletes the hook file by hand
UserRemovesHook ==
  LET gitDir == Append(HomeDir, GitName) IN
  /\ pc = Idle /\ IsFile(fs, HookPath(gitDir))
  /\ fs' = RemovePath(fs, HookPath(gitDir))
  /\ op' = HookRet("UserRemovesHook", <<>>, "nil")
  /\ UNCHANGED <<pc, saved>> /\ HookFrame

UninstallInputs == [Scope : {""}, KeepConfig : BOOLEAN]
UserHooks == {<<"e","c","h","o">>, <<>>}
HookStrategies == {"", "extract", "all"}
InstallInputs ==
  [Scope : {""}, Strategy : HookStrategies, Script : {<<>>}, Force : BOOLEAN]

\* a home directory with an initialised store, the process inside it
InitHook ==
  /\ fs = (HomeDir :> DirNode) @@ (Append(HomeDir, MemName) :> DirNode)
  /\ cwd = HomeDir
  /\ pc = Idle
  /\ index = <<>> /\ commits = <<>> /\ branches = <<>>
  /\ head = "" /\ now = 0 /\ saved = NoKey /\ run = NoRun
  /\ op = HookRet("NewInstallHookUseCase", <<>>, "nil")

NextHook ==
  \/ GitInit
  \/ \E c \in UserHooks : UserWritesHook(c)
  \/ SaveDefaultConfig
  \/ \E i \in InstallInputs : InstallBegin(i)
  \/ InstallWriteHook
  \/ InstallSaveConfig
  \/ \E i \in UninstallInputs : Uninstall(i)
  \/ UserRemovesHook
SpecHook == InitHook /\ [][NextHook]_vars

HomeHook == HookPath(Append(HomeDir, GitName))
HomeBak == BakPath(Append(HomeDir, GitName))
\* the hook settings the scope's configuration document holds on disk
PersistedHook(f) == LoadConfig(f, ScopeOf("project", HomeDir)).cfg.Hooks.PostCommit

\* C19: Install without force, called when a hook without the marker is
\* there, returns an error and changes nothing: the hook keeps its bytes,
\* no backup is created and the persisted hook settings are unchanged.
C19_InstallRefuses ==
  [][(/\ op'.name = "Install" /\ pc = Idle /\ ~op'.input.Force
      /\ IsFile(fs, HomeHook) /\ ~IsManagedHook(fs[HomeHook].content)) =>
       /\ op'.err = "hook already exists" /\ pc' = Idle
       /\ fs'[HomeHook] = fs[HomeHook]
       /\ (HomeBak \in DOMAIN fs' <=> HomeBak \in DOMAIN fs)
       /\ PersistedHook(fs') = PersistedHook(fs)
       /\ fs' = fs]_vars
\* the refusal happened with the user's hook in place, no backup and a
\* configuration document on disk
C19_Witness ==
  /\ op.name = "Install" /\ op.err = "hook already exists" /\ ~op.input.Force
  /\ IsFile(fs, HomeHook) /\ fs[HomeHook].content = <<"e","c","h","o">>
  /\ HomeBak \notin DOMAIN fs
  /\ IsFile(fs, ConfigPath(ScopeOf("project", HomeDir)))

\* C20: Install with force over a hook without the marker overwrites the
\* hook only when a backup with the hook's bytes is on disk, and when it
\* has succeeded the hook holds the marker, the backup holds the original
\* and the persisted hook settings are enabled with the requested strategy
\* ("extract" when none was given).
C20_InstallBacksUp ==
  [][/\ (/\ pc # Idle /\ IsFile(fs, HomeHook)
         /\ ~IsManagedHook(fs[HomeHook].content)
         /\ fs'[HomeHook] # fs[HomeHook]) =>
          (IsFile(fs, HomeBak) /\ fs[HomeBak].content = fs[HomeHook].content)
     /\ (/\ op'.name = "Install" /\ op'.err = "nil"
         /\ pc.input.Force /\ pc.existing # <<>>) =>
          /\ IsFile(fs', HomeHook) /\ IsManagedHook(fs'[HomeHook].content)
          /\ IsFile(fs', HomeBak) /\ fs'[HomeBak].content = pc.existing[1]
          /\ PersistedHook(fs').Enabled
          /\ PersistedHook(fs').Strategy =
               IF pc.input.Strategy = "" THEN "extract" ELSE pc.input.Strategy]_vars
\* a forced Install without a strategy has finished over the user's hook
C20_Witness ==
  /\ op.name = "Install" /\ op.err = "nil"
  /\ op.input.Force /\ op.input.Strategy = ""
  /\ IsFile(fs, HomeBak) /\ fs[HomeBak].content = <<"e","c","h","o">>
  /\ IsFile(fs, HomeHook) /\ IsManagedHook(fs[HomeHook].content)
  /\ PersistedHook(fs).Strategy = "extract"

\* the last call was an Install that succeeded, and an Uninstall follows it
InstallThenUninstall ==
  /\ op.name = "Install" /\ op.err = "nil" /\ pc = Idle
  /\ op'.name = "Uninstall"
\* C21 (as claimed): Install followed by Uninstall restores the hook
\* directory, also when Install was repeated before the Uninstall: when
\* an unmarked hook H existed and Install used force, afterwards the hook
\* file is byte-equal to H and the backup file is gone; when no hook
\* existed, afterwards no hook file exists.
C21_UninstallRestores ==
  [][InstallThenUninstall =>
       /\ (saved.hook.err = "nil" /\ ~IsManagedHook(saved.hook.content)) =>
            /\ op'.err = "nil"
            /\ IsFile(fs', HomeHook) /\ fs'[HomeHook].content = saved.hook.content
            /\ HomeBak \notin DOMAIN fs'
       /\ saved.hook.err = "ENOENT" =>
            (op'.err = "nil" /\ HomeHook \notin DOMAIN fs')]_vars
\* C21 (amended): the same, the second case only when no backup file
\* existed before the first Install either.
C21_UninstallRestoresOwnBackup ==
  [][InstallThenUninstall =>
       /\ (saved.hook.err = "nil" /\ ~IsManagedHook(saved.hook.content)) =>
            /\ op'.err = "nil"
            /\ IsFile(fs', HomeHook) /\ fs'[HomeHook].content = saved.hook.content
            /\ HomeBak \notin DOMAIN fs'
       /\ (saved.hook.err = "ENOENT" /\ saved.bak.err = "ENOENT") =>
            (op'.err = "nil" /\ HomeHook \notin DOMAIN fs')]_vars
\* the user's hook is back after a forced Install and an Uninstall, and the
\* backup is gone
C21_Witness ==
  /\ op.name = "Uninstall" /\ op.err = "nil" /\ saved # NoKey
  /\ saved.hook.err = "nil" /\ saved.hook.content = <<"e","c","h","o">>
  /\ IsFile(fs, HomeHook) /\ fs[HomeHook].content = <<"e","c","h","o">>
  /\ HomeBak \notin DOMAIN fs

\* ------------------------------------------------------ the hook pipeline
\* CommitContext is [Hash, Message, Author, Diff], each a string.

\* \w and \s of the regular expressions
WordChars == AlnumChars \cup {"_"}
\* the first position from `from` on that holds no character of S
RunEnd(T, from, S) ==
  CHOOSE r \in from..(Len(T) + 1) :
    /\ (r = Len(T) + 1 \/ T[r] \notin S)
    /\ \A k \in from..(r - 1) : T[k] \in S
\* (?m)^ : the start of the text or of a line
IsLineStart(T, s) == s = 1 \/ T[s - 1] = "\n"
LineEnd(T, s) == CHOOSE e \in s..(Len(T) + 1) :
                   /\ (e = Len(T) + 1 \/ T[e] = "\n")
                   /\ \A k \in s..(e - 1) : T[k] # "\n"

\* (?m)^\+\+\+ b/(.+)$ and (?m)^--- a/(.+)$ : the captures, in order
RECURSIVE HeaderCaptures(_, _)
HeaderCaptures(lines, prefix) ==
  IF lines = <<>> THEN <<>>
  ELSE LET l == Head(lines) IN
    (IF HasPrefix(l, prefix) /\ Len(l) > Len(prefix)
     THEN << SubSeq(l, Len(prefix) + 1, Len(l)) >> ELSE <<>>)
    \o HeaderCaptures(Tail(lines), prefix)
diffFileAddedRe(diff) == HeaderCaptures(Split(diff, "\n"), <<"+","+","+"," ","b","/">>)
diffFileDeletedRe(diff) == HeaderCaptures(Split(diff, "\n"), <<"-","-","-"," ","a","/">>)

\* (?m)^<sign>.*<kw>\s+(\w+) tried at position s: the greedy .* stays on
\* the line and takes the last keyword that whitespace and a word follow;
\* \s+ also matches line ends
DeclStarts(T, s, kw) ==
  {p \in (s + 1)..(LineEnd(T, s) - Len(kw)) :
     /\ SubSeq(T, p, p + Len(kw) - 1) = kw
     /\ LET q == p + Len(kw)
            r == RunEnd(T, q, SpaceChars)
        IN r > q /\ r <= Len(T) /\ T[r] \in WordChars}
DeclMatch(T, s, sign, kw) ==
  IF s > Len(T) \/ ~IsLineStart(T, s) \/ T[s] # sign \/ DeclStarts(T, s, kw) = {}
  THEN [ok |-> FALSE, name |-> <<>>, end |-> s]
  ELSE LET p == CHOOSE x \in DeclStarts(T, s, kw) :
                  \A y \in DeclStarts(T, s, kw) : y <= x
           r == RunEnd(T, p + Len(kw), SpaceChars)
           e == RunEnd(T, r, WordChars)
       IN [ok |-> TRUE, name |-> SubSeq(T, r, e - 1), end |-> e]
\* FindAllStringSubmatch: the matches from left to right, none overlapping
RECURSIVE DeclCaptures(_, _, _, _)
DeclCaptures(T, s, sign, kw) ==
  IF s > Len(T) THEN <<>>
  ELSE LET m == DeclMatch(T, s, sign, kw) IN
    IF m.ok THEN <<m.name>> \o DeclCaptures(T, m.end, sign, kw)
    ELSE DeclCaptures(T, s + 1, sign, kw)
KwFunc == <<"f","u","n","c">>
KwType == <<"t","y","p","e">>
diffFuncAddedRe(diff) == DeclCaptures(diff, 1, "+", KwFunc)
diffTypeAddedRe(diff) == DeclCaptures(diff, 1, "+", KwType)
diffFuncRemovedRe(diff) == DeclCaptures(diff, 1, "-", KwFunc)
diffTypeRemovedRe(diff) == DeclCaptures(diff, 1, "-", KwType)

\* \.(yaml|yml|json|toml)$
HasSuffix(s, suf) ==
  Len(suf) <= Len(s) /\ SubSeq(s, Len(s) - Len(suf) + 1, Len(s)) = suf
configFileRe(name) ==
  \E ext \in {<<".","y","a","m","l">>, <<".","y","m","l">>, <<".","j","s","o","n">>, <<".","t","o","m","l">>} : HasSuffix(name, ext)

\* uniqueMatches: the first occurrence of each name, in order
RECURSIVE uniqueMatches(_)
uniqueMatches(matches) ==
  IF matches = <<>> THEN <<>>
  ELSE LET init == uniqueMatches(SubSeq(matches, 1, Len(matches) - 1))
           last == matches[Len(matches)]
       IN IF \E i \in 1..Len(init) : init[i] = last THEN init ELSE Append(init, last)

InSeq(x, sq) == \E i \in 1..Len(sq) : sq[i] = x
\* the three lists StrategyExtract builds from the file headers
newFiles(diff) ==
  LET deleted == diffFileDeletedRe(diff)
      RECURSIVE Go(_)
      Go(ms) == IF ms = <<>> THEN <<>>
                ELSE (IF Head(ms) # DevNull /\ ~InSeq(Head(ms), deleted)
                      THEN <<Head(ms)>> ELSE <<>>) \o Go(Tail(ms))
  IN Go(diffFileAddedRe(diff))
configFiles(diff) ==
  LET RECURSIVE Go(_)
      Go(ms) == IF ms = <<>> THEN <<>>
                ELSE (IF Head(ms) # DevNull /\ configFileRe(Head(ms))
                      THEN <<Head(ms)>> ELSE <<>>) \o Go(Tail(ms))
  IN Go(diffFileAddedRe(diff))
removedFiles(diff) ==
  LET added == diffFileAddedRe(diff)
      RECURSIVE Go(_)
      Go(ms) == IF ms = <<>> THEN <<>>
                ELSE (IF Head(ms) # DevNull /\ ~InSeq(Head(ms), added)
                      THEN <<Head(ms)>> ELSE <<>>) \o Go(Tail(ms))
  IN Go(diffFileDeletedRe(diff))

\* strings.Join with a separator of any length
RECURSIVE JoinWith(_, _)
JoinWith(segs, sep) ==
  IF segs = <<>> THEN <<>>
  ELSE IF Len(segs) = 1 THEN Head(segs)
  ELSE Head(segs) \o sep \o JoinWith(Tail(segs), sep)
\* U+2014, which this module's character set cannot spell
EmDash == "emdash"
\* one clause of the summary, or none when the list is empty
Clause(label, names) ==
  IF names = <<>> THEN <<>> ELSE << label \o JoinWith(names, <<",", " ">>) >>
\* the clauses in the order StrategyExtract appends them
ExtractParts(diff) ==
  Clause(<<"a","d","d","e","d"," ","f","i","l","e","s",":"," ">>, newFiles(diff))
  \o Clause(<<"r","e","m","o","v","e","d"," ","f","i","l","e","s",":"," ">>, removedFiles(diff))
  \o Clause(<<"c","o","n","f","i","g"," ","c","h","a","n","g","e","s",":"," ">>, configFiles(diff))
  \o Clause(<<"n","e","w"," ","f","u","n","c","s",":"," ">>, uniqueMatches(diffFuncAddedRe(diff)))
  \o Clause(<<"n","e","w"," ","t","y","p","e","s",":"," ">>, uniqueMatches(diffTypeAddedRe(diff)))
  \o Clause(<<"r","e","m","o","v","e","d"," ","f","u","n","c","s",":"," ">>, uniqueMatches(diffFuncRemovedRe(diff)))
  \o Clause(<<"r","e","m","o","v","e","d"," ","t","y","p","e","s",":"," ">>, uniqueMatches(diffTypeRemovedRe(diff)))
\* the first 7 characters of the hash
ShortHash(hash) == IF Len(hash) > 7 THEN SubSeq(hash, 1, 7) ELSE hash
\* a StrategyExtract that lists every "+++ b/" path as added, paired or not
StrategyExtractUnpaired(cc) ==
  LET parts == Clause(<<"a","d","d","e","d"," ","f","i","l","e","s",":"," ">>, diffFileAddedRe(cc.Diff)) IN
  IF cc.Diff = <<>> \/ parts = <<>> THEN [result |-> <<>>, err |-> "nil"]
  ELSE [result |-> <<"[">> \o ShortHash(cc.Hash) \o <<"]", " ">> \o cc.Message
                   \o <<" ", EmDash, " ">> \o JoinWith(parts, <<";", " ">>),
        err |-> "nil"]
\* StrategyExtract: "[<hash>] <message> -- <clause>; <clause>", or "" when
\* the diff is empty or gives no clause
StrategyExtract(cc) ==
  LET parts == ExtractParts(cc.Diff) IN
  IF cc.Diff = <<>> THEN [result |-> <<>>, err |-> "nil"]
  ELSE IF parts = <<>> THEN [result |-> <<>>, err |-> "nil"]
  ELSE [result |-> <<"[">> \o ShortHash(cc.Hash) \o <<"]", " ">> \o cc.Message
                   \o <<" ", EmDash, " ">> \o JoinWith(parts, <<";", " ">>),
        err |-> "nil"]

\* ------------------------------------------------ the extract strategy
MaxDiffLines == 3   \* a diff has at most this many lines
DiffLines ==
  { <<"+","+","+"," ","b","/","n">>, <<"-","-","-"," ","a","/","n">>, <<"-","-","-"," ","a","/","o">>, <<"-","-","-"," ","/","d","e","v","/","n","u","l","l">>, <<"+","+","+"," ","b","/","c",".","y","m","l">>,
    <<"+","f","u","n","c"," ","F">>, <<"+","m","y"," ","f","u","n","c">>, <<" ","x">>, <<"-","t","y","p","e"," ","T">>, <<"+","+","+"," ","b","/","/","d","e","v","/","n","u","l","l">> }
\* the text of a diff: its lines, each ended by a line feed
RECURSIVE DiffText(_)
DiffText(lines) ==
  IF lines = <<>> THEN <<>> ELSE Head(lines) \o <<"\n">> \o DiffText(Tail(lines))
Diffs == UNION {{DiffText(ls) : ls \in [1..n -> DiffLines]} : n \in 0..MaxDiffLines}
LongHash == <<"a","b","c","1","2","3","4","d","e","f">>
ShortCommitHash == <<"a","b","c">>
CommitContexts(hashes, diffs) ==
  [Hash : hashes, Message : {<<"m">>}, Author : {<<"d">>}, Diff : diffs]

\* a commit context is at hand
InitExtract ==
  /\ fs = <<>> /\ index = <<>> /\ commits = <<>> /\ branches = <<>>
  /\ head = "" /\ now = 0 /\ saved = NoKey /\ cwd = <<>> /\ pc = Idle
  /\ run = NoRun
  /\ \E cc \in CommitContexts({LongHash}, Diffs) :
       op = [name |-> "CommitContext", cc |-> cc, result |-> <<>>, err |-> "nil"]
\* StrategyExtract is called with it
StrategyExtractCall ==
  /\ op.name = "CommitContext"
  /\ op' = [name |-> "StrategyExtract", cc |-> op.cc,
            result |-> StrategyExtract(op.cc).result,
            err |-> StrategyExtract(op.cc).err]
  /\ UNCHANGED <<fs, index, commits, branches, head, now, saved, cwd, pc, run>>
NextExtract == StrategyExtractCall
SpecExtract == InitExtract /\ [][NextExtract]_vars

\* the lines of a diff and the paths its file headers name
LinesOf(diff) == {Split(diff, "\n")[i] : i \in 1..Len(Split(diff, "\n"))}
PathsAfter(diff, prefix) ==
  {SubSeq(l, Len(prefix) + 1, Len(l)) :
     l \in {x \in LinesOf(diff) : HasPrefix(x, prefix) /\ Len(x) > Len(prefix)}}
PlusPaths(diff) == PathsAfter(diff, <<"+","+","+"," ","b","/">>)
MinusPaths(diff) == PathsAfter(diff, <<"-","-","-"," ","a","/">>)
\* the names a summary line lists in the clause that starts with label
ListedUnder(result, label) ==
  IF ~Contains(result, label) THEN {}
  ELSE LET i == CHOOSE k \in 1..(Len(result) - Len(label) + 1) :
                  SubSeq(result, k, k + Len(label) - 1) = label
           rest == SubSeq(result, i + Len(label), Len(result))
           text == Head(Split(rest, ";"))
       IN {TrimSpace(Split(text, ",")[j]) : j \in 1..Len(Split(text, ","))}
ListedAdded(result) == ListedUnder(result, <<"a","d","d","e","d"," ","f","i","l","e","s",":"," ">>)
ListedRemoved(result) == ListedUnder(result, <<"r","e","m","o","v","e","d"," ","f","i","l","e","s",":"," ">>)

\* C26: the extract strategy lists a path of a "+++ b/<path>" line with no
\* "--- a/<path>" line under added files, a path of a "--- a/<path>" line
\* with no "+++ b/<path>" line under removed files, a path with both
\* lines under neither, and never /dev/null.
C26_ExtractPairsHeaders ==
  op.name = "StrategyExtract" =>
    LET plus == PlusPaths(op.cc.Diff) \ {DevNull}
        minus == MinusPaths(op.cc.Diff) \ {DevNull}
    IN /\ op.err = "nil"
       /\ ListedAdded(op.result) = plus \ minus
       /\ ListedRemoved(op.result) = minus \ plus
       /\ DevNull \notin ListedAdded(op.result) \cup ListedRemoved(op.result)
\* o was removed, n has both headers, and /dev/null was named as a path
C26_Witness ==
  /\ op.name = "StrategyExtract"
  /\ op.cc.Diff = DiffText(<< <<"-","-","-"," ","a","/","n">>, <<"+","+","+"," ","b","/","n">>, <<"-","-","-"," ","a","/","o">> >>)
  /\ ListedRemoved(op.result) = { <<"o">> } /\ ListedAdded(op.result) = {}

\* a line that declares a func or a type: it starts with + or -, and the
\* keyword, whitespace and an identifier follow on it
IsDeclLine(l) ==
  /\ l # <<>> /\ l[1] \in {"+", "-"}
  /\ \E kw \in {KwFunc, KwType} : \E p \in 2..(Len(l) - Len(kw) + 1) :
       /\ SubSeq(l, p, p + Len(kw) - 1) = kw
       /\ \E r \in (p + Len(kw) + 1)..Len(l) :
            /\ \A k \in (p + Len(kw))..(r - 1) : l[k] \in {" ", "\t"}
            /\ l[r] \in WordChars
\* the diff gives no signal: no added or removed file, no configuration
\* file, no declaration line
NoSignal(diff) ==
  /\ (PlusPaths(diff) \ {DevNull}) = (MinusPaths(diff) \ {DevNull})
  /\ \A n \in PlusPaths(diff) \ {DevNull} : ~configFileRe(n)
  /\ \A l \in LinesOf(diff) : ~IsDeclLine(l)
\* C27 (first half): the extract strategy returns the empty string and no
\* error whenever the diff is empty or gives no recognizable signal.
C27_ExtractEmptyWithoutSignal ==
  (op.name = "StrategyExtract" /\ (op.cc.Diff = <<>> \/ NoSignal(op.cc.Diff)))
    => (op.result = <<>> /\ op.err = "nil")

\* ------------------------------------------------------------- RunHook
\* The collaborators a RunHookUseCase is built with: the provider ("nil",
\* one that answers, one that fails), the store callback ("nil", one that
\* stores, one that fails), the reindex callback ("nil" or set), and
\* whether a script that is started exits with an error.
\* An event is [what, key, content, err]: a strategy that ran, a call of
\* the store callback, or the start of the reindex task.
Event(what, key, content, err) ==
  [what |-> what, key |-> key, content |-> content, err |-> err]
\* what one strategy did: its events and the memories the callback stored
NoTrace == [events |-> <<>>, stored |-> <<>>]
Then(a, b) == [events |-> a.events \o b.events, stored |-> a.stored \o b.stored]
\* uc.storeFn(ctx, key, result)
StoreCall(uc, key, content) ==
  IF uc.storeFn = "nil" THEN NoTrace
  ELSE IF uc.storeFn = "fails"
    THEN [events |-> << Event("store", key, content, "store error") >>, stored |-> <<>>]
  ELSE [events |-> << Event("store", key, content, "nil") >>,
        stored |-> << [key |-> key, content |-> content] >>]

\* the provider's answer to the prompt
Summary == <<"s","u","m">>
\* StrategySummarize
StrategySummarize(cc, provider) ==
  IF provider = "nil" THEN [result |-> <<>>, err |-> "no provider configured"]
  ELSE IF provider = "fails" THEN [result |-> <<>>, err |-> "provider error"]
  ELSE [result |-> Summary, err |-> "nil"]
\* StrategyScript: ran tells whether the script was started
StrategyScript(cc, scriptPath, scriptFails) ==
  IF scriptPath = <<>> THEN [ran |-> FALSE, err |-> "no script configured"]
  ELSE [ran |-> TRUE, err |-> IF scriptFails THEN "script error" ELSE "nil"]

\* the end of runExtract and runSummarize: nothing is stored after an error
\* or (withEmpty false) for an empty result; otherwise the callback is called
storeResult(uc, what, key, r, withEmpty) ==
  IF r.err # "nil" \/ (~withEmpty /\ r.result = <<>>)
  THEN [events |-> << Event(what, key, r.result, r.err) >>, stored |-> <<>>]
  ELSE Then([events |-> << Event(what, key, r.result, r.err) >>, stored |-> <<>>],
            StoreCall(uc, key, r.result))
runExtract(uc, cc, key) == storeResult(uc, "extract", key, StrategyExtract(cc), FALSE)
runSummarize(uc, cc, key) ==
  storeResult(uc, "summarize", key, StrategySummarize(cc, uc.provider), TRUE)
runScript(uc, cc, script) ==
  LET r == StrategyScript(cc, script, uc.scriptFails) IN
  [events |-> << Event(IF r.ran THEN "script" ELSE "no script", script, <<>>, r.err) >>,
   stored |-> <<>>]

\* a dispatch that gives up on "all" at the first strategy that fails
DispatchStopOnFailure(uc, hc, cc) ==
  LET prefix == IF hc.KeyPrefix = <<>> THEN DefaultKeyPrefix ELSE hc.KeyPrefix
      baseKey == prefix \o <<"/">> \o ShortHash(cc.Hash)
      strategy == IF hc.Strategy = "" THEN "extract" ELSE hc.Strategy
      Failed(t) == \E i \in 1..Len(t.events) : t.events[i].err # "nil"
      e == runExtract(uc, cc, baseKey)
      sm == runSummarize(uc, cc, baseKey \o <<"/","s","u","m","m","a","r","y">>)
  IN IF strategy = "extract" THEN e
     ELSE IF strategy = "summarize" THEN runSummarize(uc, cc, baseKey)
     ELSE IF strategy = "script" THEN runScript(uc, cc, hc.Script)
     ELSE IF strategy = "all"
       THEN IF Failed(e) THEN e
            ELSE IF Failed(sm) THEN Then(e, sm)
            ELSE Then(Then(e, sm),
                      IF hc.Script # <<>> THEN runScript(uc, cc, hc.Script) ELSE NoTrace)
     ELSE NoTrace
\* a dispatch that stores the summary of "all" at the key of extract
DispatchSameKey(uc, hc, cc) ==
  LET prefix == IF hc.KeyPrefix = <<>> THEN DefaultKeyPrefix ELSE hc.KeyPrefix
      baseKey == prefix \o <<"/">> \o ShortHash(cc.Hash)
      strategy == IF hc.Strategy = "" THEN "extract" ELSE hc.Strategy
  IN IF strategy = "extract" THEN runExtract(uc, cc, baseKey)
     ELSE IF strategy = "summarize" THEN runSummarize(uc, cc, baseKey)
     ELSE IF strategy = "script" THEN runScript(uc, cc, hc.Script)
     ELSE IF strategy = "all"
       THEN Then(Then(runExtract(uc, cc, baseKey), runSummarize(uc, cc, baseKey)),
                 IF hc.Script # <<>> THEN runScript(uc, cc, hc.Script) ELSE NoTrace)
     ELSE NoTrace
\* the switch on the strategy
Dispatch(uc, hc, cc) ==
  LET prefix == IF hc.KeyPrefix = <<>> THEN DefaultKeyPrefix ELSE hc.KeyPrefix
      baseKey == prefix \o <<"/">> \o ShortHash(cc.Hash)
      strategy == IF hc.Strategy = "" THEN "extract" ELSE hc.Strategy
  IN IF strategy = "extract" THEN runExtract(uc, cc, baseKey)
     ELSE IF strategy = "summarize" THEN runSummarize(uc, cc, baseKey)
     ELSE IF strategy = "script" THEN runScript(uc, cc, hc.Script)
     ELSE IF strategy = "all"
       THEN Then(Then(runExtract(uc, cc, baseKey),
                      runSummarize(uc, cc, baseKey \o <<"/","s","u","m","m","a","r","y">>)),
                 IF hc.Script # <<>> THEN runScript(uc, cc, hc.Script) ELSE NoTrace)
     ELSE NoTrace

\* RunHookUseCase.Execute up to its return statement: noop tells that it
\* returned before the strategies; otherwise the strategies have run and
\* the reindex task was started if there is a callback
RunHookResult(f, uc, input) ==
  LET scope == Resolve("")
      ld == LoadConfig(f, scope)
      hc == ld.cfg.Hooks.PostCommit
      cc == input.CommitContext
  IN IF ld.err # "nil" \/ ~hc.Enabled \/ cc.Diff = <<>>
     THEN [noop |-> TRUE, trace |-> NoTrace, reindex |-> "none"]
     ELSE [noop |-> FALSE, trace |-> Dispatch(uc, hc, cc),
           reindex |-> IF uc.reindexFn # "nil" THEN "running" ELSE "none"]

\* the result of a RunHook call or of the command "mem hook run": as
\* HookRet, with the process's exit status (-1: no process has exited)
RunRet(name, input, err, exit) ==
  [name |-> name, key |-> NoKey, arg |-> <<>>, ref |-> "", err |-> err,
   input |-> input, exit |-> exit]
RunFrame == UNCHANGED <<index, commits, branches, head, now, saved, cwd>>
\* what run holds once Execute has reached its return statement
RunOf(uc, r) ==
  [events |-> r.trace.events
              \o (IF r.reindex = "running"
                  THEN << Event("reindex", <<>>, <<>>, "nil") >> ELSE <<>>),
   stored |-> r.trace.stored, reindex |-> r.reindex, uc |-> uc]

\* RunHookUseCase.Execute, up to its return statement
RunHook(uc, input) ==
  LET r == RunHookResult(fs, uc, input) IN
  /\ pc = Idle
  /\ run' = RunOf(uc, r)
  /\ pc' = [at |-> "return", name |-> "RunHook", input |-> input]
  /\ op' = RunRet("RunHook", input, "pending", -1)
  /\ UNCHANGED fs /\ RunFrame

\* "mem hook run <hook-type>": the type is checked, the commit context is
\* gathered from git, Execute is called; an error returned by the runner
\* ends the process with status 1
HookRunCmd(uc, hookType, gatherFails, cc) ==
  LET input == [HookType |-> hookType, CommitContext |-> cc]
      r == RunHookResult(fs, uc, input)
  IN /\ pc = Idle
     /\ IF hookType # PostCommitName
        THEN /\ run' = [NoRun EXCEPT !.uc = uc]
             /\ pc' = Idle
             /\ op' = RunRet("hook run", input, "unsupported hook type", 1)
        ELSE IF gatherFails
        THEN /\ run' = [NoRun EXCEPT !.uc = uc]
             /\ pc' = Idle
             /\ op' = RunRet("hook run", input, "nil", 0)
        ELSE /\ run' = RunOf(uc, r)
             /\ pc' = [at |-> "return", name |-> "hook run", input |-> input]
             /\ op' = RunRet("hook run", input, "pending", -1)
     /\ UNCHANGED fs /\ RunFrame

\* an Execute that waits for the reindex task before it returns
RunHookReturnAwaits ==
  /\ pc # Idle /\ pc.at = "return" /\ run.reindex # "running"
  /\ op' = RunRet(pc.name, pc.input, "nil", IF pc.name = "hook run" THEN 0 ELSE -1)
  /\ pc' = Idle
  /\ UNCHANGED <<fs, run>> /\ RunFrame
\* Execute returns nil; the command's runner returns nil and the process
\* exits with status 0
RunHookReturn ==
  /\ pc # Idle /\ pc.at = "return"
  /\ op' = RunRet(pc.name, pc.input, "nil", IF pc.name = "hook run" THEN 0 ELSE -1)
  /\ pc' = Idle
  /\ UNCHANGED <<fs, run>> /\ RunFrame

\* the detached reindex task comes to its end, with or without an error
ReindexDone(err) ==
  /\ run.reindex = "running"
  /\ run' = [run EXCEPT !.reindex = IF err = "nil" THEN "done" ELSE "failed"]
  /\ UNCHANGED <<fs, op, pc>> /\ RunFrame

PrePushName == <<"p","r","e","-","p","u","s","h">>
\* the hook settings a scope may hold: none, or enabled ones
HookConfigs ==
  {NoHook}
    \cup [Enabled : {TRUE}, Scope : {""}, Strategy : {"", "summarize"},
          Script : {<<>>}, KeyPrefix : {<<>>}]
    \cup [Enabled : {TRUE}, Scope : {""}, Strategy : {"extract"},
          Script : {<<>>}, KeyPrefix : {<<>>, <<"k">>}]
    \cup [Enabled : {TRUE}, Scope : {""}, Strategy : {"script"},
          Script : {<<>>, <<"s">>}, KeyPrefix : {<<>>}]
    \cup [Enabled : {TRUE}, Scope : {""}, Strategy : {"all"},
          Script : {<<>>, <<"s">>}, KeyPrefix : {<<>>, <<"k">>}]
\* the collaborators: a provider or none, a store callback that stores, one
\* that fails or none, a reindex callback or none, a script that fails or not
UseCases ==
  [provider : {"nil", "ok"}, storeFn : {"nil", "ok", "fails"},
   reindexFn : {"nil", "set"}, scriptFails : BOOLEAN]
\* main.go: no provider, SetMemory as the store callback, RebuildIndex as
\* the reindex callback
CmdUseCases ==
  [provider : {"nil"}, storeFn : {"ok", "fails"}, reindexFn : {"set"},
   scriptFails : BOOLEAN]
\* an empty diff, one without signal, one that adds a func
RunDiffs == {<<>>, DiffText(<< <<" ","x">> >>), DiffText(<< <<"+","f","u","n","c"," ","F">> >>)}
RunContexts ==
  CommitContexts({LongHash}, RunDiffs)
    \cup CommitContexts({ShortCommitHash}, {DiffText(<< <<" ","x">> >>)})
RunHookInputs == [HookType : {PostCommitName, PrePushName}, CommitContext : RunContexts]

\* a home directory with an initialised store whose configuration document
\* holds hook settings (or is missing), the process inside it, the use
\* case built with its collaborators
InitRun ==
  /\ \E hc \in HookConfigs : \E saved_cfg \in BOOLEAN :
       /\ (~saved_cfg => hc = NoHook)
       /\ LET home == (HomeDir :> DirNode) @@ (Append(HomeDir, MemName) :> DirNode)
              scope == ScopeOf("project", HomeDir)
          IN fs = IF saved_cfg
                  THEN SaveConfig(home, scope,
                                  [DefaultConfig EXCEPT !.Hooks.PostCommit = hc]).fs
                  ELSE home
  /\ cwd = HomeDir
  /\ pc = Idle
  /\ \E uc \in UseCases : run = [NoRun EXCEPT !.uc = uc]
  /\ index = <<>> /\ commits = <<>> /\ branches = <<>>
  /\ head = "" /\ now = 0 /\ saved = NoKey
  /\ op = RunRet("NewRunHookUseCase", <<>>, "nil", -1)
NextRun ==
  \/ \E i \in RunHookInputs : RunHook(run.uc, i)
  \/ \E t \in {PostCommitName, PrePushName} : \E g \in BOOLEAN :
       \E cc \in RunContexts : run.uc \in CmdUseCases /\ HookRunCmd(run.uc, t, g, cc)
  \/ RunHookReturn
  \/ \E e \in {"nil", "reindex error"} : ReindexDone(e)
SpecRun == InitRun /\ [][NextRun]_vars

\* the hook settings the store holds on disk, and whether a call with
\* this input gets past the checks on them and on the diff
PersistedRunHook == LoadConfig(fs, ScopeOf("project", HomeDir)).cfg.Hooks.PostCommit
PassesChecks(input) == PersistedRunHook.Enabled /\ input.CommitContext.Diff # <<>>
\* the strategies of the last call, in the order they ran
RECURSIVE StrategyEvents(_)
StrategyEvents(evs) ==
  IF evs = <<>> THEN <<>>
  ELSE (IF Head(evs).what \in {"extract", "summarize", "script", "no script"}
        THEN <<Head(evs)>> ELSE <<>>) \o StrategyEvents(Tail(evs))
Whats(evs) == [i \in 1..Len(evs) |-> evs[i].what]

\* C22: RunHook(type, ctx) runs no strategy, stores no memory, requests no
\* reindex and returns success unless the type is "post-commit", the
\* persisted hook settings are enabled and ctx.Diff is not empty.
C22_RunHookNoOp ==
  (op.name = "RunHook" /\ ~(/\ op.input.HookType = PostCommitName
                            /\ PassesChecks(op.input))) =>
    /\ run.events = <<>> /\ run.stored = <<>> /\ run.reindex = "none"
    /\ op.err \in {"pending", "nil"}

\* C23: RunHook returns success whatever strategy is configured and
\* whichever of the store callback, the provider and the script fail, and
\* under "all" extract, summarize and (when a script is configured) the
\* script are each tried, whether or not the ones before failed.
C23_FailuresDoNotAbort ==
  (op.name = "RunHook" /\ PassesChecks(op.input)) =>
    /\ op.err = IF pc = Idle THEN "nil" ELSE "pending"
    /\ PersistedRunHook.Strategy = "all" =>
         Whats(StrategyEvents(run.events)) =
           <<"extract", "summarize">>
           \o (IF PersistedRunHook.Script # <<>> THEN <<"script">> ELSE <<>>)
\* under "all" the store callback failed for extract, summarize had no
\* provider, the script failed, and RunHook returned success
C23_Witness ==
  /\ op.name = "RunHook" /\ op.err = "nil" /\ pc = Idle
  /\ PersistedRunHook.Strategy = "all"
  /\ Len(run.events) >= 4
  /\ run.events[1].what = "extract" /\ run.events[1].err = "nil"
  /\ run.events[2].what = "store" /\ run.events[2].err = "store error"
  /\ run.events[3].what = "summarize" /\ run.events[3].err = "no provider configured"
  /\ run.events[4].what = "script" /\ run.events[4].err = "script error"

\* the key the claim gives a commit: the prefix ("hooks/commits" when none
\* is set), a slash and the first 7 characters of the hash
ClaimedKey(hc, cc) ==
  (IF hc.KeyPrefix = <<>> THEN <<"h","o","o","k","s","/","c","o","m","m","i","t","s">> ELSE hc.KeyPrefix)
  \o <<"/">>
  \o [i \in 1..(IF Len(cc.Hash) < 7 THEN Len(cc.Hash) ELSE 7) |-> cc.Hash[i]]
\* every call of the store callback follows the strategy whose result it
\* stores and has that strategy's key and result
StoresFollowStrategies(evs) ==
  \A i \in 1..Len(evs) : evs[i].what = "store" =>
    /\ i > 1 /\ evs[i - 1].what \in {"extract", "summarize"}
    /\ evs[i].key = evs[i - 1].key /\ evs[i].content = evs[i - 1].content
\* C24: extract stores its result at <KeyPrefix>/<shortHash>; "all" runs
\* extract, then summarize storing at <KeyPrefix>/<shortHash>/summary, then
\* the script, which is run only if a script path is configured; an empty
\* Strategy behaves as extract.
C24_DispatchOrderAndKeys ==
  (op.name = "RunHook" /\ PassesChecks(op.input)) =>
    LET hc == PersistedRunHook
        key == ClaimedKey(hc, op.input.CommitContext)
        st == StrategyEvents(run.events)
    IN /\ StoresFollowStrategies(run.events)
       /\ \A i \in 1..Len(st) : st[i].what = "script" => hc.Script # <<>>
       /\ hc.Strategy \in {"", "extract"} =>
            (Whats(st) = <<"extract">> /\ st[1].key = key)
       /\ hc.Strategy = "all" =>
            /\ Len(st) >= 2
            /\ st[1].what = "extract" /\ st[1].key = key
            /\ st[2].what = "summarize" /\ st[2].key = key \o <<"/","s","u","m","m","a","r","y">>
            /\ (hc.Script # <<>>) <=> (Len(st) = 3 /\ st[3].what = "script")
\* under "all" without a key prefix, the extract line and the summary of
\* commit abc1234def were stored and the script was run
C24_Witness ==
  /\ op.name = "RunHook" /\ PersistedRunHook.Strategy = "all"
  /\ Len(run.stored) = 2
  /\ run.stored[1].key = <<"h","o","o","k","s","/","c","o","m","m","i","t","s","/","a","b","c","1","2","3","4">>
  /\ run.stored[2].key = <<"h","o","o","k","s","/","c","o","m","m","i","t","s","/","a","b","c","1","2","3","4","/","s","u","m","m","a","r","y">>
  /\ run.events[Len(run.events)].what = "script"

\* C25: a RunHook that passes its checks starts the reindex callback once,
\* after its strategies, as a detached task: it can return whatever state
\* the task is in, and the task's end or error changes neither the result
\* nor the stored memories.
C25_ReindexDetached ==
  /\ [](op.name = "RunHook" /\ PassesChecks(op.input) /\ run.uc.reindexFn # "nil" =>
          /\ Cardinality({i \in 1..Len(run.events) : run.events[i].what = "reindex"}) = 1
          /\ run.events[Len(run.events)].what = "reindex"
          /\ run.reindex # "none")
  /\ []((pc # Idle /\ pc.at = "return") => ENABLED RunHookReturn)
  /\ []((op.name = "RunHook" /\ pc = Idle) => op.err = "nil")
  /\ [][run.reindex = "running" /\ run'.reindex \in {"done", "failed"} =>
          (op' = op /\ pc' = pc /\ run'.stored = run.stored /\ fs' = fs)]_vars
\* RunHook has returned success with a memory stored while the reindex
\* task is still running
C25_Witness ==
  /\ op.name = "RunHook" /\ op.err = "nil" /\ pc = Idle
  /\ run.reindex = "running" /\ run.stored # <<>>

\* C28: "mem hook run <type>" ends with exit status zero, for every type
\* and every failure while the commit context is gathered or the
\* strategies run.
C28_HookRunExitsZero ==
  (op.name = "hook run" /\ pc = Idle) => op.exit = 0

\* ------------------------------------------- the write use cases (Set, Add, Edit)
\* the collaborators a write use case is built with: the embedder (nil,
\* working, or failing in Embed), the index factory (nil, working, or
\* failing), the vector index's Add (working or failing) and the
\* .memignore matcher factory (nil, or one whose matcher blocks the key)
Enrichments ==
  [embedder : {"nil", "ok", "fails"}, indexFor : {"nil", "ok", "fails"},
   add : {"ok", "fails"}, ignore : {"nil"}]
NoEnrichment == [embedder |-> "nil", indexFor |-> "nil", add |-> "ok", ignore |-> "nil"]
WriteUseCases ==
  {e \in Enrichments :
     \/ e.add = "ok" /\ (e.embedder = "nil" \/ e.indexFor = "nil") /\ e.embedder # "fails" /\ e.indexFor # "fails"
     \/ e.add = "ok" /\ e.embedder = "ok" /\ e.indexFor = "fails"
     \/ e.add = "ok" /\ e.embedder = "fails" /\ e.indexFor = "ok"
     \/ e.embedder = "ok" /\ e.indexFor = "ok"}
    \cup {[NoEnrichment EXCEPT !.ignore = "blocks"]}

\* an index update that hands its failures back to the caller
UpdateIndexStrict(uc) ==
  IF uc.embedder = "nil" \/ uc.indexFor = "nil" THEN [err |-> "nil", indexed |-> FALSE]
  ELSE IF uc.indexFor = "fails" THEN [err |-> "get index", indexed |-> FALSE]
  ELSE IF uc.embedder = "fails" THEN [err |-> "embed", indexed |-> FALSE]
  ELSE IF uc.add = "fails" THEN [err |-> "index add", indexed |-> FALSE]
  ELSE [err |-> "nil", indexed |-> TRUE]

\* the index update that ends Set, Add and Edit: skipped without an embedder
\* or an index factory; a failing factory or Embed is logged; the error of
\* index.Add is dropped; the caller's result is nil on every path
UpdateIndex(uc) ==
  IF uc.embedder = "nil" \/ uc.indexFor = "nil" THEN [err |-> "nil", indexed |-> FALSE]
  ELSE IF uc.indexFor = "fails" THEN [err |-> "nil", indexed |-> FALSE]
  ELSE IF uc.embedder = "fails" THEN [err |-> "nil", indexed |-> FALSE]
  ELSE [err |-> "nil", indexed |-> uc.add = "ok"]

\* GitRepository.Commit as a function of the staged tree: the commit it
\* makes, or the error of an empty commit
CommitResult(idx, message) ==
  LET c == [parent |-> HeadCommit, tree |-> idx, message |-> message, when |-> now]
  IN IF idx = HeadTree
     THEN [err |-> "commit", commits |-> commits, branches |-> branches, hash |-> 0]
     ELSE [err |-> "nil",
           commits |-> IF CommitId(c) > Len(commits) THEN Append(commits, c) ELSE commits,
           branches |-> [branches EXCEPT ![head] = CommitId(c)],
           hash |-> CommitId(c)]

\* what a write use case returns and leaves behind
WriteOutcome(err, f, idx, cs, bs, hash, indexed) ==
  [err |-> err, fs |-> f, index |-> idx, commits |-> cs, branches |-> bs,
   hash |-> hash, indexed |-> indexed]
WriteUnchanged(err) == WriteOutcome(err, fs, index, commits, branches, 0, FALSE)

\* the part Add and Edit share: Save, default message, Commit, index update
SaveAndCommit(uc, key, content, message) ==
  LET sv == SaveResult(fs, index, key, content)
      cm == CommitResult(sv.index, message)
      ui == UpdateIndex(uc)
  IN IF sv.err # "nil"
     THEN WriteOutcome("save memory", sv.fs, sv.index, commits, branches, 0, FALSE)
     ELSE IF cm.err # "nil"
     THEN WriteOutcome("commit", sv.fs, sv.index, commits, branches, 0, FALSE)
     ELSE WriteOutcome(ui.err, sv.fs, sv.index, cm.commits, cm.branches, cm.hash, ui.indexed)

SetMemoryExecute(uc, input) ==
  LET key == NewKey(input.Key)
      sv == SaveResult(fs, index, key.key, input.Content)
      ui == UpdateIndex(uc)
  IN IF key.err # "nil" THEN WriteUnchanged("ErrInvalidKey")
     ELSE IF uc.ignore = "blocks" THEN WriteUnchanged("blocked by .memignore")
     ELSE IF sv.err # "nil"
     THEN WriteOutcome("save memory", sv.fs, sv.index, commits, branches, 0, FALSE)
     ELSE WriteOutcome(ui.err, sv.fs, sv.index, commits, branches, 0, ui.indexed)

AddMemoryExecute(uc, input) ==
  LET key == NewKey(input.Key)
      existing == Get(key.key)
      newContent == IF existing.err = "nil"
                    THEN existing.content \o <<"\n">> \o input.Content
                    ELSE input.Content
      message == IF input.Message = <<>>
                 THEN <<"a","d","d",":"," ","a","p","p","e","n","d"," ","t","o"," ">> \o input.Key
                 ELSE input.Message
  IN IF key.err # "nil" THEN WriteUnchanged("ErrInvalidKey")
     ELSE IF uc.ignore = "blocks" THEN WriteUnchanged("blocked by .memignore")
     ELSE SaveAndCommit(uc, key.key, newContent, message)

EditMemoryExecute(uc, input) ==
  LET key == NewKey(input.Key)
      message == IF input.Message = <<>>
                 THEN <<"e","d","i","t",":"," ","u","p","d","a","t","e"," ">> \o input.Key
                 ELSE input.Message
  IN IF key.err # "nil" THEN WriteUnchanged("ErrInvalidKey")
     ELSE IF uc.ignore = "blocks" THEN WriteUnchanged("blocked by .memignore")
     ELSE SaveAndCommit(uc, key.key, input.Content, message)

WriteExecute(name, uc, input) ==
  IF name = "SetMemory" THEN SetMemoryExecute(uc, input)
  ELSE IF name = "AddMemory" THEN AddMemoryExecute(uc, input)
  ELSE EditMemoryExecute(uc, input)

\* the store, and the use case built on it with its collaborators
InitWrite ==
  /\ fs = (RootPath :> DirNode) @@ (MemDir :> DirNode)
          @@ (InitFile :> FileNode(InitContent))
  /\ index = (<<InitName>> :> InitContent)
  /\ commits = << [parent |-> 0, tree |-> (<<InitName>> :> InitContent),
                   message |-> InitMessage, when |-> 0] >>
  /\ branches = (InitBranch :> 1)
  /\ head = InitBranch
  /\ now = 0
  /\ saved = NoKey
  /\ cwd = RootPath
  /\ pc = Idle
  /\ \E uc \in WriteUseCases :
       /\ run = [NoRun EXCEPT !.uc = uc]
       /\ op = [name |-> "NewUseCases", input |-> <<>>, err |-> "nil",
                hash |-> 0, indexed |-> FALSE]

\* one call of a write use case
WriteCall(name, input) ==
  \E r \in {WriteExecute(name, run.uc, input)} :
  /\ fs' = r.fs
  /\ index' = r.index
  /\ commits' = r.commits
  /\ branches' = r.branches
  /\ op' = [name |-> name, input |-> input, err |-> r.err,
            hash |-> r.hash, indexed |-> r.indexed]
  /\ UNCHANGED <<cwd, pc, run, head, now, saved>>

MaxWriteCommits == 3   \* SpecWrite: no Add or Edit once the store holds this many
InvalidKey == <<"/","a">>
SetInputs ==
  [Key : {KeyA, KeyAB, InvalidKey}, Content : {<<"v">>, <<"w">>}, Message : {<<>>}]
WriteInputs == SetInputs \cup {[Key |-> KeyA, Content |-> <<"v">>, Message |-> <<"m">>]}

NextWrite ==
  \/ \E i \in SetInputs : WriteCall("SetMemory", i)
  \/ \E i \in WriteInputs : Len(commits) < MaxWriteCommits /\ WriteCall("AddMemory", i)
  \/ \E i \in WriteInputs : Len(commits) < MaxWriteCommits /\ WriteCall("EditMemory", i)

SpecWrite == InitWrite /\ [][NextWrite]_vars

WriteNames == {"SetMemory", "AddMemory", "EditMemory"}

\* C29: Set, Add and Edit return the same result and leave the same stored
\* content and history whether the embedder or the vector index is absent,
\* returns an error, or works: every call ends as the same call made
\* without an embedder and an index ends.
C29_EnrichmentNeverFailsWrite ==
  [][op'.name \in WriteNames =>
        \A base \in {WriteExecute(op'.name, [run.uc EXCEPT !.embedder = "nil", !.indexFor = "nil", !.add = "ok"], op'.input)} :
           /\ op'.err = base.err
           /\ op'.hash = base.hash
           /\ fs' = base.fs
           /\ index' = base.index
           /\ commits' = base.commits
           /\ branches' = base.branches
           /\ head' = head]_vars
\* an Add has committed although Embed failed, an Edit although the index
\* factory failed, or a Set has saved although index.Add failed
C29_Witness ==
  /\ op.name \in WriteNames /\ op.err = "nil" /\ ~op.indexed
  /\ \/ op.name = "AddMemory" /\ run.uc.embedder = "fails" /\ run.uc.indexFor = "ok" /\ op.hash = Len(commits)
     \/ op.name = "EditMemory" /\ run.uc.indexFor = "fails" /\ run.uc.embedder = "ok" /\ op.hash = Len(commits)
     \/ op.name = "SetMemory" /\ run.uc.add = "fails" /\ Get(op.input.Key).err = "nil"

\* ------------------------------------------------------------ the sentinel
\* a key that passes NewKey and that filepath.Join cleans to the sentinel
KeySentinel == <<"a","/",".",".","/",".","m","e","m","-","i","n","i","t">>
SentinelKeys == {KeyA, KeyAB, KeySentinel}

NextSentinel ==
  \/ \E k \in SentinelKeys, c \in StoreContents : Save(k, c)
  \/ \E k \in SentinelKeys : Delete(k)
  \/ \E m \in StoreMessages : Len(commits) < MaxCommits /\ Commit(m)

SpecSentinel == Init /\ [][NextSentinel]_vars

\* C30: the sentinel file is never surfaced as a user memory: no
\* List(prefix) result contains it, and no Get, Exists or Delete called
\* with a key that passes validation reads, reports or removes it.
C30_SentinelNeverSurfaced ==
  /\ [](\A prefix \in ListPrefixes : \A i \in 1..Len(List(prefix)) :
          keyToPath(List(prefix)[i].key) # InitFile)
  /\ [](\A k \in SentinelKeys : NewKey(k).err = "nil" =>
          /\ Get(k).err = "nil" => keyToPath(k) # InitFile
          /\ Exists(k).val => keyToPath(k) # InitFile)
  /\ [][(op'.name = "Delete" /\ NewKey(op'.key).err = "nil" /\ IsFile(fs, InitFile)) =>
          (IsFile(fs', InitFile) /\ fs'[InitFile] = fs[InitFile])]_vars

\* ---------------------------------------------------------- Add appends
\* the content Add(key, x) is to leave at the key
Appended(key, x) ==
  IF IsFile(fs, keyToPath(key)) THEN fs[keyToPath(key)].content \o <<"\n">> \o x ELSE x

\* C31: Add(key, x) appends: when the key already holds content old, the
\* stored content becomes old, a newline, x; when the key does not exist,
\* the stored content is exactly x; in both cases exactly one new commit
\* is created.
C31_AddAppends ==
  [][\A k \in {KeyA, KeyAB} :
       (op'.name = "AddMemory" /\ op'.input.Key = k /\ run.uc.ignore = "nil") =>
          /\ op'.err = "nil"
          /\ Get(k)' = [err |-> "nil", content |-> Appended(k, op'.input.Content)]
          /\ Len(commits') = Len(commits) + 1
          /\ Tail(Log(0))' = Log(0)]_vars

\* ------------------------------------- the hook with the store behind it
\* SetMemoryUseCase.Execute on the disk f: Resolve, open the repository,
\* Save below the scope's root
SetMemoryResult(f, scopeHint, keyString, content) ==
  LET scope == Resolve(scopeHint)
      path == FilepathJoin(scope.Path, NewKey(keyString).key)
      mk == MkdirAll(f, Parent(path))
      wr == WriteFile(mk.fs, path, content)
  IN IF NewKey(keyString).err # "nil" THEN [err |-> "ErrInvalidKey", fs |-> f]
     ELSE IF RepoFor(scope) # "nil" THEN [err |-> "get repository", fs |-> f]
     ELSE IF mk.err # "nil" THEN [err |-> "save memory", fs |-> f]
     ELSE IF wr.err # "nil" THEN [err |-> "save memory", fs |-> mk.fs]
     ELSE [err |-> "nil", fs |-> wr.fs]

\* main.go's store callback: Set with the key and the content, no scope hint
hookStoreFn(f, key, content) == SetMemoryResult(f, "", key, content)

\* the store callback called for each memory in turn: the disk afterwards
\* and the error of each call
RECURSIVE StoreAll(_, _, _)
RECURSIVE StoreAllNext(_, _, _)
StoreAll(f, calls, errs) ==
  IF calls = <<>> THEN [fs |-> f, errs |-> errs]
  ELSE StoreAllNext(hookStoreFn(f, Head(calls).key, Head(calls).content), calls, errs)
StoreAllNext(r, calls, errs) == StoreAll(r.fs, Tail(calls), Append(errs, r.err))

\* RunHookUseCase.Execute wired as in main.go, with the use case's provider
StoredUseCase(provider) ==
  [provider |-> provider, storeFn |-> "ok", reindexFn |-> "set", scriptFails |-> FALSE]

\* one RunHook call with the store callback of main.go: Execute and every
\* Set its strategies asked for; the reindex task is left running
RunHookStored(input) ==
  \E r \in {RunHookResult(fs, run.uc, input)} :
    \E done \in {StoreAll(fs, r.trace.stored, <<>>)} :
      /\ pc = Idle
      /\ fs' = done.fs
      /\ run' = [events |-> r.trace.events, stored |-> r.trace.stored,
                 reindex |-> r.reindex, uc |-> run.uc]
      /\ op' = [name |-> "RunHook", input |-> input, err |-> "nil",
                calls |-> r.trace.stored, storeErrs |-> done.errs,
                scope |-> Resolve(""), noop |-> r.noop]
      /\ UNCHANGED <<index, commits, branches, head, now, saved, cwd, pc>>

\* a git repository in the home directory, a global store, a project
\* directory with or without a store of its own, the process in one of the
\* two, and the use case with or without a provider
InitStored ==
  /\ \E proj \in BOOLEAN :
       fs = (HomeDir :> DirNode) @@ (Append(HomeDir, MemName) :> DirNode)
            @@ (Append(HomeDir, GitName) :> DirNode) @@ (ProjDir :> DirNode)
            @@ (IF proj THEN (Append(ProjDir, MemName) :> DirNode) ELSE <<>>)
  /\ cwd \in {HomeDir, ProjDir}
  /\ pc = Idle
  /\ \E provider \in {"nil", "ok"} : run = [NoRun EXCEPT !.uc = StoredUseCase(provider)]
  /\ index = <<>> /\ commits = <<>> /\ branches = <<>>
  /\ head = "" /\ now = 0 /\ saved = NoKey
  /\ op = HookRet("NewRunHookUseCase", <<>>, "nil")

StoredHints == {"", "global", "project"}
StoredInstallInputs ==
  [Scope : StoredHints, Strategy : {"all"}, Script : {<<>>}, Force : {FALSE}]
\* a commit that adds a func, one without signal
StoredContexts ==
  CommitContexts({LongHash}, {DiffText(<< <<"+","f","u","n","c"," ","F">> >>),
                              DiffText(<< <<" ","x">> >>)})
StoredInputs == [HookType : {PostCommitName}, CommitContext : StoredContexts]

NextStored ==
  \/ \E i \in StoredInstallInputs : InstallBegin(i)
  \/ InstallWriteHook
  \/ InstallSaveConfig
  \/ \E i \in StoredInputs : RunHookStored(i)
  \/ \E d \in {HomeDir, ProjDir} : pc = Idle /\ cwd # d /\ Chdir(d)

SpecStored == InitStored /\ [][NextStored]_vars

\* the key of the commit's extract memory, and of its summary
ExtractKey == DefaultKeyPrefix \o <<"/">> \o ShortHash(LongHash)
SummaryKey == ExtractKey \o <<"/","s","u","m","m","a","r","y">>
\* the hook settings the scope Resolve("") finds
ResolvedHook == LoadConfig(fs, Resolve("")).cfg.Hooks.PostCommit

\* C32: with strategy all, when extract yields a non-empty summary and
\* summarize returns text, one RunHook call stores both derived memories:
\* afterwards Get of <KeyPrefix>/<shortHash> returns the extract line and
\* Get of <KeyPrefix>/<shortHash>/summary returns the summary text.
C32_AllStoresBoth ==
  [][\A cc \in StoredContexts :
       (/\ op'.name = "RunHook" /\ op'.input.CommitContext = cc
        /\ ResolvedHook.Enabled /\ ResolvedHook.Strategy = "all"
        /\ StrategyExtract(cc).result # <<>> /\ run.uc.provider = "ok") =>
          /\ ScopeGet(Resolve(""), ExtractKey)'
               = [err |-> "nil", content |-> StrategyExtract(cc).result]
          /\ ScopeGet(Resolve(""), SummaryKey)' = [err |-> "nil", content |-> Summary]]_vars

\* the two stores, and the hook settings each one's document holds
StoredScopes == {Global, ScopeOf("project", ProjDir)}
PersistedIn(sc) == LoadConfig(fs, sc).cfg.Hooks.PostCommit

\* C40: RunHook uses the scope the hook was installed into: once Install
\* has persisted its hook settings in the document of one scope (the
\* global one or the project's), a RunHook("post-commit") with a diff that
\* has signal reads those settings and stores its derived memory in the
\* store of that scope, also when both a project and a global store exist.
C40_RunHookUsesInstallScope ==
  [][\A sc \in StoredScopes : \A cc \in StoredContexts :
       (/\ op'.name = "RunHook" /\ op'.input.CommitContext = cc
        /\ StrategyExtract(cc).result # <<>>
        /\ PersistedIn(sc).Enabled
        /\ \A other \in StoredScopes \ {sc} : ~PersistedIn(other).Enabled) =>
          /\ ~op'.noop
          /\ op'.scope.Path = sc.Path
          /\ ScopeGet(sc, ExtractKey)'
               = [err |-> "nil", content |-> StrategyExtract(cc).result]]_vars

\* C33: after Commit succeeds nothing remains staged: every change staged
\* by Save or Delete before the call is part of the new commit's snapshot,
\* and Diff("") called immediately afterwards returns the empty string.
C33_CommitLeavesNothingStaged ==
  [][(op'.name = "Commit" /\ op'.err = "nil") =>
        /\ commits'[branches'[head']].tree = index
        /\ index' = index
        /\ NothingStaged'
        /\ diffWorktreeVsHead' = {<<>>}]_vars
\* a commit whose snapshot holds a saved key and no longer holds a deleted
\* path
C33_Witness ==
  /\ op.name = "Commit" /\ op.err = "nil" /\ Len(commits) = 2
  /\ <<KeyA>> \in DOMAIN HeadTree /\ <<InitName>> \notin DOMAIN HeadTree
  /\ index = HeadTree

\* ------------------------------------------------- operations that fail
\* Diff(ref) with a ref: diffHeadVsRef reads HEAD's commit, resolves ref
\* and renders a patch; it writes nothing. The patch text is left out of
\* the result here, the error is kept.
DiffRef(ref) ==
  /\ op' = Ret("Diff", NoKey, <<>>, ref,
               IF ResolveRevision(ref) = 0 THEN "resolve ref" ELSE "nil")
  /\ saved' = NoKey
  /\ UNCHANGED <<cwd, pc, run, fs, index, commits, branches, head, now>>

\* the store driven with every history and branch operation
NextFail ==
  \/ \E k \in StoreKeys : Save(k, <<"v">>)
  \/ \E k \in StoreKeys : Delete(k)
  \/ \E m \in StoreMessages : Len(commits) < MaxCommits /\ Commit(m)
  \/ \E n \in BranchNames : Create(n)
  \/ \E n \in BranchNames : Switch(n)
  \/ \E n \in BranchNames : DeleteBranch(n)
  \/ \E r \in Revisions : Revert(r)
  \/ \E r \in Revisions : DiffRef(r)
SpecFail == Init /\ [][NextFail]_vars

HistoryOrBranchOps == {"Commit", "Revert", "Diff", "Create", "Switch", "DeleteBranch"}

\* C34 as claimed: a history or branch operation that returns an error
\* leaves the working tree, the staged changes, the log, the current branch
\* and every branch head as they were; Revert(ref) and Diff(ref) with a ref
\* that does not resolve return an error.
C34_FailedOpsChangeNothing ==
  [][/\ (op'.name \in HistoryOrBranchOps /\ op'.err # "nil") =>
          UNCHANGED <<fs, index, commits, branches, head>>
     /\ (op'.name \in {"Revert", "Diff"} /\ ResolveRevision(op'.ref) = 0) =>
          op'.err # "nil"]_vars

\* ------------------------------------------------ the branch command
\* createAndSwitchBranch: `branch <name>` calls Create and, when that
\* succeeded, Switch; Create never fails here, so the command's error is
\* the one of Switch
createAndSwitchBranch(name) ==
  LET made == (name :> HeadCommit) @@ branches
      tree == commits[made[name]].tree
      r == ResetWorktree(fs, index, tree)
  IN /\ branches' = made
     /\ head' = name
     /\ index' = IF Unstaged THEN index ELSE tree
     /\ fs' = IF Unstaged THEN fs ELSE r.fs
     /\ op' = Ret("branch", NoKey, <<>>, name,
                  IF Unstaged \/ r.err # "nil" THEN "switch branch" ELSE "nil")
     /\ saved' = NoKey
     /\ UNCHANGED <<cwd, pc, run, commits, now>>

\* the store driven through Create and the branch command
NextBranchCmd ==
  \/ \E c \in HistContents : Save(KeyA, c)
  \/ \E m \in StoreMessages : Len(commits) < MaxCommits /\ Commit(m)
  \/ \E n \in BranchNames : Create(n)
  \/ \E n \in BranchNames : Switch(n)
  \/ \E n \in BranchNames : createAndSwitchBranch(n)
SpecBranchCmd == Init /\ [][NextBranchCmd]_vars

\* C35: Create(name), called directly or through the branch command,
\* leaves the head commit of a branch that already exists where it was.
C35_CreateKeepsExistingBranch ==
  [][(op'.name \in {"Create", "branch"} /\ op'.ref \in DOMAIN branches) =>
        branches'[op'.ref] = branches[op'.ref]]_vars

\* C36: in every reachable state the branch Current() names is one of
\* ListBranches, and its Head there and in Current() is the hash of the
\* first entry of the unlimited Log.
C36_CurrentIsListedHead ==
  /\ head \in DOMAIN branches
  /\ \E i \in 1..Len(ListBranches) :
       /\ ListBranches[i].Name = Current.Name
       /\ ListBranches[i].Head = Current.Head
  /\ Log(0) # <<>>
  /\ Current.Head = Log(0)[1].Hash
C36_Witness ==
  /\ op.name = "Revert" /\ op.err = "nil"
  /\ Current.Name = "dev" /\ Len(ListBranches) = 2
  /\ Current.Head = 1 /\ branches["master"] = 2

\* ------------------------------------------------ the auto-committing set
\* makeSetRunner and Client.Set: Save, and when it succeeded Commit with
\* the message "set: <key>"; saveErr is the caller's wrapping of a Save
\* error, a Commit error is returned as "commit"
SetMessage(key) == <<"s","e","t",":"," ">> \o key
SaveThenCommit(name, saveErr, key, content) ==
  LET r == SaveResult(fs, index, key, content)
      c == [parent |-> HeadCommit, tree |-> r.index,
            message |-> SetMessage(key), when |-> now]
      made == r.err = "nil" /\ r.index # HeadTree
  IN /\ fs' = r.fs
     /\ index' = r.index
     /\ commits' = IF made /\ CommitId(c) > Len(commits) THEN Append(commits, c) ELSE commits
     /\ branches' = IF made THEN [branches EXCEPT ![head] = CommitId(c)] ELSE branches
     /\ op' = Ret(name, key, content, "",
                  IF r.err # "nil" THEN saveErr ELSE IF made THEN "nil" ELSE "commit")
     /\ saved' = key
     /\ UNCHANGED <<cwd, pc, run, head, now>>
makeSetRunner(key, content) == SaveThenCommit("set", "set memory", key, content)
ClientSet(key, content) == SaveThenCommit("Client.Set", "save", key, content)

\* the store driven through the auto-committing set
NextSet ==
  \/ \E k \in StoreKeys, c \in StoreContents :
       Len(commits) < MaxHistCommits /\ makeSetRunner(k, c)
  \/ \E k \in StoreKeys, c \in StoreContents :
       Len(commits) < MaxHistCommits /\ ClientSet(k, c)
  \/ \E k \in StoreKeys : Delete(k)
  \/ \E m \in StoreMessages : Len(commits) < MaxHistCommits /\ Commit(m)
SpecSet == Init /\ [][NextSet]_vars

\* C37: the auto-committing set succeeds for every valid key and value in
\* every store state, also when the key already holds that value, and
\* Get(key) returns the value afterwards.
C37_SetAlwaysSucceeds ==
  [][\A k \in StoreKeys :
       (op'.name \in {"set", "Client.Set"} /\ op'.key = k) =>
          /\ op'.err = "nil"
          /\ Get(k)' = [err |-> "nil", content |-> op'.arg]]_vars

\* ------------------------------------------------------ the vector index
\* The persisted index is mapping.json under the scope's vectors directory:
\* keyToID and nextID (idToKey is keyToID's inverse; the vectors of
\* index.ann are left out). It is kept in run.persisted; run.embedder says
\* whether there is an embedder ("nil" when not) and whether Embed answers
\* ("ok") or fails ("err").
EmptyMapping == [keyToID |-> [k \in {} |-> 0], nextID |-> 0]

\* AnnoyIndex.Add: a key that has no id gets nextID
AnnoyAdd(m, key) ==
  IF key \in DOMAIN m.keyToID THEN m
  ELSE [keyToID |-> (key :> m.nextID) @@ m.keyToID, nextID |-> m.nextID + 1]

\* AnnoyIndex.Remove: the key leaves the maps of this index value
AnnoyRemove(m, key) ==
  [m EXCEPT !.keyToID = [k \in DOMAIN m.keyToID \ {key} |-> m.keyToID[k]]]

\* indexFor: no embedder gives ErrNoIndex; else a new AnnoyIndex that
\* has loaded the persisted mapping (no file: the empty maps)
indexFor ==
  IF run.embedder = "nil" THEN [err |-> "ErrNoIndex", index |-> EmptyMapping]
  ELSE [err |-> "nil", index |-> run.persisted]

\* the loop of RebuildIndex: Embed each listed memory, skip it when Embed
\* fails, else Add it
RECURSIVE AddListed(_, _)
AddListed(m, mems) ==
  IF mems = <<>> THEN m
  ELSE AddListed(IF run.embedder = "ok" THEN AnnoyAdd(m, Head(mems).key) ELSE m,
                 Tail(mems))

\* RebuildIndexUseCase.Execute: indexFor, List(""), the loop, Build, Save
RebuildIndexExecute ==
  /\ run' = IF run.embedder = "nil" THEN run
            ELSE [run EXCEPT !.persisted = AddListed(indexFor.index, List(<<>>))]
  /\ op' = Ret("RebuildIndex", NoKey, <<>>, "",
               IF run.embedder = "nil" THEN "embedder not available" ELSE "nil")
  /\ saved' = NoKey
  /\ UNCHANGED <<cwd, pc, fs, index, commits, branches, head, now>>

\* DeleteMemoryUseCase.Execute: Delete, then Remove on the index indexFor
\* returned; that index is dropped without Save
DeleteMemoryExecute(key) ==
  LET r == DeleteResult(fs, index, key)
      loaded == IF r.err = "nil" /\ indexFor.err = "nil"
                THEN AnnoyRemove(indexFor.index, key) ELSE EmptyMapping
  IN /\ fs' = r.fs
     /\ index' = r.index
     /\ op' = Ret("DeleteMemory", key, <<>>, "",
                  IF r.err = "ErrNotFound" THEN "delete memory: ErrNotFound"
                  ELSE IF r.err # "nil" THEN "delete memory" ELSE "nil")
     /\ saved' = NoKey
     /\ UNCHANGED <<cwd, pc, run, commits, branches, head, now>>

InitIndex ==
  /\ fs = (RootPath :> DirNode) @@ (MemDir :> DirNode)
          @@ (InitFile :> FileNode(InitContent))
  /\ index = (<<InitName>> :> InitContent)
  /\ commits = << [parent |-> 0, tree |-> (<<InitName>> :> InitContent),
                   message |-> InitMessage, when |-> 0] >>
  /\ branches = (InitBranch :> 1)
  /\ head = InitBranch
  /\ now = 0
  /\ saved = NoKey
  /\ cwd = RootPath
  /\ pc = Idle
  /\ op = Ret("InitRepository", NoKey, <<>>, "", "nil")
  /\ \E e \in {"nil", "ok", "err"} :
       run = [persisted |-> EmptyMapping, embedder |-> e]

IndexKeys == {KeyA, KeyAB, <<"b">>}
NextIndex ==
  \/ \E k \in IndexKeys : Save(k, <<"v">>)
  \/ \E k \in IndexKeys : DeleteMemoryExecute(k)
  \/ RebuildIndexExecute
SpecIndex == InitIndex /\ [][NextIndex]_vars

\* the keys of the persisted index
PersistedKeys == DOMAIN run.persisted.keyToID

\* C38: after RebuildIndex succeeds, the keys of the persisted index are
\* exactly the keys List("") returns; after a successful Delete through
\* the use case with an index available, the persisted index does not
\* hold the deleted key.
C38_IndexMatchesStore ==
  /\ (op.name = "RebuildIndex" /\ op.err = "nil") =>
        PersistedKeys = ListedKeys(<<>>)
  /\ (op.name = "DeleteMemory" /\ op.err = "nil" /\ indexFor.err = "nil") =>
        op.key \notin PersistedKeys

\* ------------------------------------------------- two concurrent Adds
\* Two processes run AddMemoryUseCase.Execute on the same store. Each call
\* of the repository (Get, Save, Commit) is one step; between the steps
\* the other process may run. run[p] holds the process's input, its
\* position, what its Get returned, what it wrote and what it returned.
Procs == {1, 2}
AddStart(key, x) ==
  [pc |-> "start", key |-> key, x |-> x, existing |-> [err |-> "none", content |-> <<>>],
   written |-> <<>>, err |-> "none", hash |-> 0]

\* existing, _ := repo.Get(ctx, key)
AddRead(p) ==
  /\ run[p].pc = "start"
  /\ run' = [run EXCEPT ![p].pc = "read", ![p].existing = Get(run[p].key)]
  /\ op' = Ret("AddRead", run[p].key, run[p].x, "", "nil")
  /\ UNCHANGED <<fs, index, commits, branches, head, now, saved, cwd, pc>>

\* the content Add writes: what its Get returned, "\n" and the input, or
\* the input alone when the Get returned no memory
AddContent(existing, x) ==
  IF existing.err = "nil" THEN existing.content \o <<"\n">> \o x ELSE x

\* an Add whose Save appends to what the key holds when the Save runs
AddSaveFresh(p) ==
  \E sv \in {SaveResult(fs, index, run[p].key, AddContent(Get(run[p].key), run[p].x))} :
    /\ run[p].pc = "read"
    /\ fs' = sv.fs
    /\ index' = sv.index
    /\ run' = IF sv.err # "nil"
              THEN [run EXCEPT ![p].pc = "done", ![p].err = "save memory"]
              ELSE [run EXCEPT ![p].pc = "saved",
                               ![p].written = AddContent(Get(run[p].key), run[p].x)]
    /\ op' = Ret("AddSave", run[p].key, run[p].x, "",
                 IF sv.err # "nil" THEN "save memory" ELSE "nil")
    /\ UNCHANGED <<commits, branches, head, now, saved, cwd, pc>>

\* repo.Save(ctx, mem) with the content built from the earlier Get
AddSave(p) ==
  \E sv \in {SaveResult(fs, index, run[p].key, AddContent(run[p].existing, run[p].x))} :
    /\ run[p].pc = "read"
    /\ fs' = sv.fs
    /\ index' = sv.index
    /\ run' = IF sv.err # "nil"
              THEN [run EXCEPT ![p].pc = "done", ![p].err = "save memory"]
              ELSE [run EXCEPT ![p].pc = "saved",
                               ![p].written = AddContent(run[p].existing, run[p].x)]
    /\ op' = Ret("AddSave", run[p].key, run[p].x, "",
                 IF sv.err # "nil" THEN "save memory" ELSE "nil")
    /\ UNCHANGED <<commits, branches, head, now, saved, cwd, pc>>

\* hist.Commit(ctx, message) and the return of Execute
AddCommit(p) ==
  \E cm \in {CommitResult(index,
               <<"a","d","d",":"," ","a","p","p","e","n","d"," ","t","o"," ">> \o run[p].key)} :
    /\ run[p].pc = "saved"
    /\ commits' = cm.commits
    /\ branches' = cm.branches
    /\ run' = [run EXCEPT ![p].pc = "done", ![p].err = cm.err, ![p].hash = cm.hash]
    /\ op' = Ret("AddCommit", run[p].key, run[p].x, "", cm.err)
    /\ UNCHANGED <<fs, index, head, now, saved, cwd, pc>>

InitAdds ==
  /\ fs = (RootPath :> DirNode) @@ (MemDir :> DirNode)
          @@ (InitFile :> FileNode(InitContent))
  /\ index = (<<InitName>> :> InitContent)
  /\ commits = << [parent |-> 0, tree |-> (<<InitName>> :> InitContent),
                   message |-> InitMessage, when |-> 0] >>
  /\ branches = (InitBranch :> 1)
  /\ head = InitBranch
  /\ now = 0
  /\ saved = NoKey
  /\ cwd = RootPath
  /\ pc = Idle
  /\ op = Ret("InitRepository", NoKey, <<>>, "", "nil")
  /\ \E k1 \in StoreKeys, k2 \in StoreKeys, x \in HistContents, y \in HistContents :
       run = (1 :> AddStart(k1, x)) @@ (2 :> AddStart(k2, y))

NextAdds ==
  \/ \E p \in Procs : AddRead(p)
  \/ \E p \in Procs : AddSave(p)
  \/ \E p \in Procs : AddCommit(p)
SpecAdds == InitAdds /\ [][NextAdds]_vars

\* what the index holds for a key
StagedContent(key) ==
  IF FilepathRel(RootPath, keyToPath(key)) \in DOMAIN index
  THEN index[FilepathRel(RootPath, keyToPath(key))] ELSE <<>>

\* both Adds are on the same key with different contents
SameKeyAdds == run[1].key = run[2].key /\ run[1].x # run[2].x
BothSucceeded == \A p \in Procs : run[p].pc = "done" /\ run[p].err = "nil"

\* C39: two Adds on one key are not coordinated. When both read the key
\* before either wrote it and both report success, the key ends up with
\* the content one of them wrote, which holds only that one's input (a
\* lost update); and a Commit made by one while the index holds what the
\* other staged puts the other's content into its commit.
C39_WritersNotCoordinated ==
  /\ [](\A p \in Procs : \A q \in Procs \ {p} :
          (SameKeyAdds /\ BothSucceeded /\ run[p].existing = run[q].existing) =>
             /\ Get(run[p].key).content \in {run[p].written, run[q].written}
             /\ run[p].written = AddContent(run[p].existing, run[p].x)
             /\ run[q].written = AddContent(run[p].existing, run[q].x))
  /\ [][\A p \in Procs : \A q \in Procs \ {p} :
          (SameKeyAdds /\ run[p].pc = "saved" /\ run[q].pc = "saved"
             /\ run'[p].pc = "done" /\ run'[p].err = "nil"
             /\ StagedContent(run[p].key) = run[q].written
             /\ run[q].written # run[p].written) =>
               commits'[run'[p].hash].tree[FilepathRel(RootPath, keyToPath(run[p].key))]
                  = run[q].written]_vars
C39_Witness ==
  /\ SameKeyAdds /\ BothSucceeded
  /\ run[1].existing.err = "ErrNotFound" /\ run[2].existing.err = "ErrNotFound"
  /\ run[1].x = <<"v">> /\ run[2].x = <<"w">>
  /\ Get(run[1].key) = [err |-> "nil", content |-> <<"w">>]
  /\ Len(commits) = 3
====
